---- MODULE Spec2Model ----
(***************************************************************************)
(* Verification model of the GRIB2 framing engine of scorix/grib:          *)
(*   - the positioned reader  (grib2/reader/reader_at.go),                 *)
(*   - the sequential reader  (grib2/reader/reader.go),                    *)
(*   - the section framer     (section.Reader.ReadSection),                *)
(*   - the block assembler and the flattening (reader/message.go),         *)
(*   - the lazy Section 7 handle (section7, section7Reader).               *)
(* Files are byte sequences; every reader works on the bytes.              *)
(***************************************************************************)
EXTENDS Integers, Sequences, FiniteSets, TLC

(***************************************************************************)
(* Bounds of the model.                                                    *)
(***************************************************************************)
\* the message loop of ReaderAt.EachMessage is cut after this many messages
MaxMsgs == 4
\* payload bytes of the Section 7 handle under test
MaxPayload == 3
\* largest buffer handed to section7Reader.Read
MaxBuf == 2
\* operations of the single-threaded Section 7 client
MaxOps == 5
\* threads sharing one Section 7 handle
NThreads == 2
\* largest length a section handed to a decoder of a byte slice declares
MaxDeclared == 23

(***************************************************************************)
(* Bytes and big-endian integers (encoding/binary.BigEndian).              *)
(***************************************************************************)
\* a nil section reference
NoSec == 0 - 1

\* stands for the value a uint32 takes when length - 5 wraps below zero
Huge == 2000000000

Min(a, b) == IF a < b THEN a ELSE b

Zeros(n) == [i \in 1..n |-> 0]

BE32(b) == ((b[1] * 256 + b[2]) * 256 + b[3]) * 256 + b[4]

BE64(b) == (BE32(SubSeq(b, 1, 4)) * 65536) * 65536 + BE32(SubSeq(b, 5, 8))

PutBE32(n) == << (n \div 16777216) % 256, (n \div 65536) % 256, (n \div 256) % 256, n % 256 >>

GRIB == << 71, 82, 73, 66 >>

End7777 == << 55, 55, 55, 55 >>

(***************************************************************************)
(* Section layouts, used to write the input files.                         *)
(***************************************************************************)
Sec0Bytes(disc, total) == GRIB \o << 0, 0, disc, 2 >> \o << 0, 0, 0, 0 >> \o PutBE32(total)

SecBytes(num, len) == PutBE32(len) \o << num >> \o Zeros(len - 5)

\* the smallest length each decoder accepts
MinLen(num) ==
    CASE num = 1 -> 21
      [] num = 2 -> 5
      [] num = 3 -> 14
      [] num = 4 -> 9
      [] num = 5 -> 11
      [] num = 6 -> 6
      [] num = 7 -> 5
      [] OTHER -> 5

\* the length the input files give a section: S2 and S7 carry a payload
StdLen(num) == IF num \in {2, 7} THEN MinLen(num) + 2 ELSE MinLen(num)

RECURSIVE BodyBytes(_)
BodyBytes(nums) ==
    IF nums = << >> THEN << >>
    ELSE (IF Head(nums) = 8 THEN End7777 ELSE SecBytes(Head(nums), StdLen(Head(nums))))
         \o BodyBytes(Tail(nums))

\* a well-formed message: Section 0 declares the true total length
MsgBytes(disc, nums) == Sec0Bytes(disc, 16 + Len(BodyBytes(nums))) \o BodyBytes(nums)

\* a message whose Section 0 declares `total` whatever the sections sum to
MsgBytesDeclared(disc, nums, total) == Sec0Bytes(disc, total) \o BodyBytes(nums)

(***************************************************************************)
(* The positioned byte source: bytes.Reader.ReadAt.  It fails with io.EOF  *)
(* unless all n bytes are there.                                           *)
(***************************************************************************)
ReadAt(f, off, n) ==
    IF off >= 0 /\ off + n <= Len(f)
    THEN [ok |-> TRUE, b |-> SubSeq(f, off + 1, off + n)]
    ELSE [ok |-> FALSE, b |-> << >>]

(***************************************************************************)
(* section.Reader.ReadSection on the stream f[pos+1 .. limit].             *)
(* The result says what was decoded and how many bytes left the stream.    *)
(***************************************************************************)
SecErr(kind, used) ==
    [res |-> "err", err |-> kind, num |-> NoSec, length |-> 0, consumed |-> used,
     disc |-> 0, edition |-> 0, total |-> 0]

SecPanic(used) ==
    [res |-> "panic", err |-> "panic", num |-> NoSec, length |-> 0, consumed |-> used,
     disc |-> 0, edition |-> 0, total |-> 0]

SecOk(n, len, used) ==
    [res |-> "ok", err |-> "nil", num |-> n, length |-> len, consumed |-> used,
     disc |-> 0, edition |-> 0, total |-> 0]

\* io.Reader.Read(p) on the stream: up to n bytes, zero-padded as the buffer is
StreamRead(f, pos, limit, n) ==
    LET got == Min(n, limit - pos)
    IN  [n |-> got, b |-> SubSeq(f, pos + 1, pos + got) \o Zeros(n - got)]

NewSection0FromBytes(data) ==
    IF Len(data) < 16 THEN SecErr("Truncated", 16)
    ELSE IF SubSeq(data, 1, 4) # GRIB THEN SecErr("InvalidMagic", 16)
    ELSE [res |-> "ok", err |-> "nil", num |-> 0, length |-> 16, consumed |-> 16,
          disc |-> data[7], edition |-> data[8], total |-> BE64(SubSeq(data, 9, 16))]

\* io.ReadFull of 16 bytes, then NewSection0FromBytes
NewSection0FromReader(f, pos, limit) ==
    IF limit - pos < 16 THEN SecErr("UnexpectedEOF", limit - pos)
    ELSE NewSection0FromBytes(SubSeq(f, pos + 1, pos + 16))

\* NewSection8FromBytes without the comparison with "7777"
NewSection8FromBytesAnyBytes(data, used) ==
    IF Len(data) < 4 THEN SecErr("Truncated", used) ELSE SecOk(8, 4, used)

NewSection8FromBytes(data, used) ==
    IF Len(data) < 4 THEN SecErr("Truncated", used)
    ELSE IF SubSeq(data, 1, 4) # End7777 THEN SecErr("InvalidMagic", used)
    ELSE SecOk(8, 4, used)

\* io.ReadFull of 4 bytes: they are the 4 bytes ReadSection already took
NewSection8FromReader(f, pos, used) == NewSection8FromBytes(SubSeq(f, pos + 1, pos + 4), used)

(***************************************************************************)
(* The decoders of a byte slice, NewSection<n>FromBytes.  body is the      *)
(* template or bit-map the section value holds, entries the number of      *)
(* list or coordinate values it holds.                                     *)
(***************************************************************************)
BE16(b) == b[1] * 256 + b[2]

DecErr(kind) == [err |-> kind, num |-> NoSec, length |-> 0, body |-> << >>, entries |-> 0]

DecOk(n, len, body, entries) ==
    [err |-> "nil", num |-> n, length |-> len, body |-> body, entries |-> entries]

\* bytes.Reader.Read(b) with len(b) = n at read index i: nothing is read into
\* an empty b; io.EOF when no byte is left; else as many bytes as there are,
\* the rest of b left zero
BytesReaderRead(data, i, n) ==
    IF n <= 0 THEN [err |-> "nil", n |-> 0, b |-> << >>]
    ELSE IF i >= Len(data) THEN [err |-> "EOF", n |-> 0, b |-> Zeros(n)]
    ELSE IF Len(data) - i >= n THEN [err |-> "nil", n |-> n, b |-> SubSeq(data, i + 1, i + n)]
    ELSE [err |-> "nil", n |-> Len(data) - i,
          b |-> SubSeq(data, i + 1, Len(data)) \o Zeros(n - (Len(data) - i))]

\* binary.Read of `count` 4-byte values at read index i: each is an io.ReadFull
BinaryReadList(data, i, count) ==
    IF Len(data) - i >= 4 * count THEN "nil"
    ELSE IF (Len(data) - i) % 4 = 0 THEN "EOF" ELSE "UnexpectedEOF"

\* the end of NewSection3FromBytes and NewSection4FromBytes: the list has been
\* read with outcome listErr
ListRead(num, length, body, count, listErr) ==
    IF listErr # "nil" THEN DecErr(listErr) ELSE DecOk(num, length, body, count)

\* the template has been read with outcome r: the list is read where it ended
TemplateRead(data, fixed, length, r, count) ==
    IF r.err # "nil" THEN DecErr(r.err)
    ELSE ListRead(data[5], length, r.b, count, BinaryReadList(data, fixed + r.n, count))

\* NewSection1FromBytes after the length check: io.CopyN of uint32(length - 21)
CopyReserved(data, length) ==
    IF Len(data) - 21 < (IF length >= 21 THEN length - 21 ELSE Huge) THEN DecErr("EOF")
    ELSE DecOk(data[5], length, << >>, 0)

NewSection1FromBytes(data) ==
    IF Len(data) < 21 THEN DecErr("Truncated")
    ELSE CopyReserved(data, BE32(SubSeq(data, 1, 4)))

\* NewSection3FromBytes after the fixed part: template, then optional list
Section3Rest(data, length, optionalListOctets) ==
    TemplateRead(data, 14, length,
                 BytesReaderRead(data, 14, length - 14 - optionalListOctets),
                 optionalListOctets \div 4)

NewSection3FromBytes(data) ==
    IF Len(data) < 14 THEN DecErr("Truncated")
    ELSE Section3Rest(data, BE32(SubSeq(data, 1, 4)), data[11])

\* NewSection4FromBytes after the fixed part: template, then coordinate values
Section4Rest(data, length, numberOfCoordinateValues) ==
    TemplateRead(data, 9, length,
                 BytesReaderRead(data, 9, length - 9 - numberOfCoordinateValues * 4),
                 numberOfCoordinateValues)

NewSection4FromBytes(data) ==
    IF Len(data) < 9 THEN DecErr("Truncated")
    ELSE Section4Rest(data, BE32(SubSeq(data, 1, 4)), BE16(SubSeq(data, 6, 7)))

\* NewSection5FromBytes after the fixed part: the template
Section5Rest(data, length) ==
    TemplateRead(data, 11, length, BytesReaderRead(data, 11, length - 11), 0)

NewSection5FromBytes(data) ==
    IF Len(data) < 11 THEN DecErr("Truncated")
    ELSE Section5Rest(data, BE32(SubSeq(data, 1, 4)))

\* NewSection6FromBytes after the fixed part: the bit-map, if the indicator is 0
Section6Rest(data, length, bitMapIndicator) ==
    TemplateRead(data, 6, length,
                 BytesReaderRead(data, 6, IF bitMapIndicator = 0 THEN length - 6 ELSE 0), 0)

NewSection6FromBytes(data) ==
    IF Len(data) < 6 THEN DecErr("Truncated")
    ELSE Section6Rest(data, BE32(SubSeq(data, 1, 4)), data[6])

DecodeBytes(num, data) ==
    CASE num = 1 -> NewSection1FromBytes(data)
      [] num = 3 -> NewSection3FromBytes(data)
      [] num = 4 -> NewSection4FromBytes(data)
      [] num = 5 -> NewSection5FromBytes(data)
      [] OTHER -> NewSection6FromBytes(data)

\* what the stream readers pass on from NewSection<n>FromBytes
SectionOfBytes(d, used) ==
    IF d.err # "nil" THEN SecErr(d.err, used) ELSE SecOk(d.num, d.length, used)

\* NewSection<n>FromBytes for n in 1, 3, 4, 5, 6, as the stream readers call it
NewSectionFromBytes(num, data, used) == SectionOfBytes(DecodeBytes(num, data), used)

\* NewSection3FromReader, NewSection5FromReader, NewSection6FromReader:
\* make([]byte, length), copy(data[:4], ..), io.ReadFull(reader, data[4:])
NewSectionFromReader(num, f, pos, limit) ==
    LET length == BE32(SubSeq(f, pos + 1, pos + 4))
        used == IF length < 5 THEN 5 ELSE length
    IN  IF length < 4 THEN SecPanic(5)
        ELSE IF limit - pos < length THEN SecErr("UnexpectedEOF", limit - pos)
        ELSE NewSectionFromBytes(num, SubSeq(f, pos + 1, pos + length), used)

\* NewSection1FromReader, NewSection4FromReader: the declared length is read
\* from the stream and decoded, as for Sections 3, 5 and 6
NewSection1FromReader(f, pos, limit) == NewSectionFromReader(1, f, pos, limit)

NewSection4FromReader(f, pos, limit) == NewSectionFromReader(4, f, pos, limit)

\* NewSection2FromReader: io.Copy takes the reader to its end
NewSection2FromReader(f, pos, limit) ==
    LET length == BE32(SubSeq(f, pos + 1, pos + 4))
    IN  IF limit - pos < length THEN SecErr("UnexpectedEOF", limit - pos)
        ELSE SecOk(f[pos + 5], length, limit - pos)

\* NewSection7FromReader: the 5 header bytes; the payload stays in the reader
NewSection7FromReader(f, pos, limit) ==
    LET length == BE32(SubSeq(f, pos + 1, pos + 4))
    IN  IF f[pos + 5] # 7 THEN SecErr("SectionNumberMismatch", 5)
        ELSE SecOk(7, length, 5)

SectionReadSection(f, pos, limit) ==
    LET first4 == StreamRead(f, pos, limit, 4)
    IN  IF first4.n = 0 THEN SecErr("EOF", 0)
        ELSE IF first4.b = GRIB THEN NewSection0FromReader(f, pos, limit)
        ELSE IF first4.b = End7777 THEN NewSection8FromReader(f, pos, 4)
        ELSE IF limit - pos < 5 THEN SecErr("EOF", limit - pos)
        ELSE LET nextByte == f[pos + 5]
             IN  CASE nextByte = 0 -> NewSection0FromReader(f, pos, limit)
                   [] nextByte = 8 -> NewSection8FromReader(f, pos, 5)
                   [] nextByte = 2 -> NewSection2FromReader(f, pos, limit)
                   [] nextByte = 7 -> NewSection7FromReader(f, pos, limit)
                   [] nextByte = 1 -> NewSection1FromReader(f, pos, limit)
                   [] nextByte = 4 -> NewSection4FromReader(f, pos, limit)
                   [] nextByte \in {3, 5, 6} -> NewSectionFromReader(nextByte, f, pos, limit)
                   [] OTHER -> SecErr("InvalidSectionNumber", 5)

(***************************************************************************)
(* ReaderAt.ReadSectionAt: frame by the first 4 bytes, then decode from an *)
(* io.SectionReader over [offset, offset + sectionLength).                 *)
(***************************************************************************)
ReadSectionAt(f, offset) ==
    LET first4 == ReadAt(f, offset, 4)
        sectionLength == CASE first4.b = GRIB -> 16
                           [] first4.b = End7777 -> 4
                           [] OTHER -> BE32(first4.b)
    IN  IF ~first4.ok THEN SecErr("Io", 0)
        ELSE SectionReadSection(f, offset, Min(Len(f), offset + sectionLength))

(***************************************************************************)
(* ReaderAt.scanSectionsInRange.                                           *)
(***************************************************************************)
SectionInfo(n, off, len) == [Number |-> n, Offset |-> off, Length |-> len]

\* FrameAt with the end marker given no length
FrameAtMarkerUncounted(f, offset, first4) ==
    IF first4 = GRIB THEN [err |-> "nil", number |-> 0, length |-> 16]
    ELSE IF first4 = End7777 THEN [err |-> "nil", number |-> 8, length |-> 0]
    ELSE LET sectionLength == BE32(first4)
             numByte == ReadAt(f, offset + 4, 1)
         IN  IF sectionLength < 5 THEN [err |-> "InvalidLength", number |-> NoSec, length |-> 0]
             ELSE IF ~numByte.ok THEN [err |-> "Io", number |-> NoSec, length |-> 0]
             ELSE [err |-> "nil", number |-> numByte.b[1], length |-> sectionLength]

\* the switch on the first 4 bytes: section number and length
FrameAt(f, offset, first4) ==
    IF first4 = GRIB THEN [err |-> "nil", number |-> 0, length |-> 16]
    ELSE IF first4 = End7777 THEN [err |-> "nil", number |-> 8, length |-> 4]
    ELSE LET sectionLength == BE32(first4)
             numByte == ReadAt(f, offset + 4, 1)
         IN  IF sectionLength < 5 THEN [err |-> "InvalidLength", number |-> NoSec, length |-> 0]
             ELSE IF ~numByte.ok THEN [err |-> "Io", number |-> NoSec, length |-> 0]
             ELSE [err |-> "nil", number |-> numByte.b[1], length |-> sectionLength]

RECURSIVE ScanLoop(_, _, _, _)
ScanLoop(f, offset, endOffset, sections) ==
    IF ~(offset < endOffset) THEN [err |-> "nil", sections |-> sections]
    ELSE LET first4 == ReadAt(f, offset, 4)
             fr == FrameAt(f, offset, first4.b)
             sections1 == Append(sections, SectionInfo(fr.number, offset, fr.length))
         IN  IF ~first4.ok THEN [err |-> "nil", sections |-> sections]
             ELSE IF fr.err # "nil" THEN [err |-> fr.err, sections |-> << >>]
             ELSE IF fr.number = 8 THEN [err |-> "nil", sections |-> sections1]
             ELSE ScanLoop(f, offset + fr.length, endOffset, sections1)

\* scanSectionsInRange stopping short of the last 4 bytes of the range
scanSectionsInRangeShort(f, startOffset, endOffset) ==
    ScanLoop(f, startOffset, endOffset - 4, << >>)

scanSectionsInRange(f, startOffset, endOffset) == ScanLoop(f, startOffset, endOffset, << >>)

(***************************************************************************)
(* ReaderAt.buildMessageFromInfo: read every section of the index, then    *)
(* fold the sections into local blocks, grid blocks and data fields.       *)
(* A section is referred to by its offset in the file.                     *)
(***************************************************************************)
RECURSIVE ReadAllAt(_, _)
ReadAllAt(f, infos) ==
    IF infos = << >> THEN [err |-> "nil", secs |-> << >>]
    ELSE LET sec == ReadSectionAt(f, Head(infos).Offset)
             rest == ReadAllAt(f, Tail(infos))
         IN  IF sec.res # "ok" THEN [err |-> sec.err, secs |-> << >>]
             ELSE IF rest.err # "nil" THEN rest
             ELSE [err |-> "nil", secs |-> << [num |-> sec.num, id |-> Head(infos).Offset] >> \o rest.secs]

EmptyBuild ==
    [Indicator |-> NoSec, Identification |-> NoSec, End |-> NoSec, Blocks |-> << >>,
     localUse |-> NoSec, grids |-> << >>, gridDef |-> NoSec, fields |-> << >>]

NewDataField(sec4) == [ProductDef |-> sec4, DataRep |-> NoSec, Bitmap |-> NoSec, Data |-> NoSec]

\* currentDataFields[len(currentDataFields)-1].<field> = sec, if there is one
SetLast(fields, name, id) ==
    IF fields = << >> THEN fields
    ELSE [fields EXCEPT ![Len(fields)] = [@ EXCEPT ![name] = id]]

\* the switch of buildMessageFromInfo, one section at a time
BuildAtStep(st, sec) ==
    CASE sec.num = 0 -> [st EXCEPT !.Indicator = sec.id]
      [] sec.num = 1 -> [st EXCEPT !.Identification = sec.id]
      [] sec.num = 2 ->
           LET hasFields == st.fields # << >>
               grids1 == IF hasFields
                         THEN Append(st.grids, [GridDef |-> st.gridDef, Fields |-> st.fields])
                         ELSE st.grids
               gridDef1 == IF hasFields THEN NoSec ELSE st.gridDef
           IN  IF grids1 # << >>
               THEN [st EXCEPT !.Blocks = Append(@, [LocalUse |-> st.localUse, Grids |-> grids1]),
                               !.grids = << >>, !.fields = << >>, !.gridDef = gridDef1,
                               !.localUse = sec.id]
               ELSE [st EXCEPT !.grids = grids1, !.fields = << >>, !.gridDef = gridDef1,
                               !.localUse = sec.id]
      [] sec.num = 3 ->
           IF st.fields # << >>
           THEN [st EXCEPT !.grids = Append(@, [GridDef |-> st.gridDef, Fields |-> st.fields]),
                           !.fields = << >>, !.gridDef = sec.id]
           ELSE [st EXCEPT !.gridDef = sec.id]
      [] sec.num = 4 -> [st EXCEPT !.fields = Append(@, NewDataField(sec.id))]
      [] sec.num = 5 -> [st EXCEPT !.fields = SetLast(@, "DataRep", sec.id)]
      [] sec.num = 6 -> [st EXCEPT !.fields = SetLast(@, "Bitmap", sec.id)]
      [] sec.num = 7 -> [st EXCEPT !.fields = SetLast(@, "Data", sec.id)]
      [] sec.num = 8 -> [st EXCEPT !.End = sec.id]
      [] OTHER -> st

RECURSIVE BuildAtFold(_, _)
BuildAtFold(st, secs) ==
    IF secs = << >> THEN st ELSE BuildAtFold(BuildAtStep(st, Head(secs)), Tail(secs))

\* "Finalize remaining blocks"
BuildAtFinish(st) ==
    LET grids1 == IF st.fields # << >>
                  THEN Append(st.grids, [GridDef |-> st.gridDef, Fields |-> st.fields])
                  ELSE st.grids
        blocks1 == IF grids1 # << >>
                   THEN Append(st.Blocks, [LocalUse |-> st.localUse, Grids |-> grids1])
                   ELSE st.Blocks
    IN  [Indicator |-> st.Indicator, Identification |-> st.Identification, End |-> st.End,
         Blocks |-> blocks1]

buildMessageFromInfo(f, info) ==
    LET read == ReadAllAt(f, info.Sections)
    IN  IF read.err # "nil" THEN [err |-> read.err, msg |-> BuildAtFinish(EmptyBuild)]
        ELSE [err |-> "nil", msg |-> BuildAtFinish(BuildAtFold(EmptyBuild, read.secs))]

(***************************************************************************)
(* Message.FlattenToFlatMessages.  extractProductInfo and extractGridInfo  *)
(* call methods of Identification, GridDef and DataRepSec: a nil one is a  *)
(* nil-interface call, which panics.                                       *)
(***************************************************************************)
FlatOf(info, msg, lb, gb, df, idx) ==
    [Index |-> idx, Offset |-> info.Offset, Length |-> info.Length,
     Indicator |-> msg.Indicator, Identification |-> msg.Identification,
     LocalUse |-> lb.LocalUse, GridDef |-> gb.GridDef, ProductDef |-> df.ProductDef,
     DataRepSec |-> df.DataRep, Bitmap |-> df.Bitmap, Data |-> df.Data, End |-> msg.End]

ExtractPanics(flat) ==
    flat.Identification = NoSec \/ flat.GridDef = NoSec \/ flat.DataRepSec = NoSec

\* the data fields of the tree in loop order, each with its local and grid block
RECURSIVE FieldsOfGrids(_, _)
FieldsOfGrids(lb, grids) ==
    IF grids = << >> THEN << >>
    ELSE [i \in 1..Len(Head(grids).Fields) |-> [lb |-> lb, gb |-> Head(grids), df |-> Head(grids).Fields[i]]]
         \o FieldsOfGrids(lb, Tail(grids))

RECURSIVE FieldsOfBlocks(_)
FieldsOfBlocks(blocks) ==
    IF blocks = << >> THEN << >>
    ELSE FieldsOfGrids(Head(blocks), Head(blocks).Grids) \o FieldsOfBlocks(Tail(blocks))

FlattenToFlatMessages(info, msg) ==
    LET all == FieldsOfBlocks(msg.Blocks)
        flats == [i \in 1..Len(all) |-> FlatOf(info, msg, all[i].lb, all[i].gb, all[i].df, i - 1)]
    IN  [panic |-> \E i \in 1..Len(flats) : ExtractPanics(flats[i]), flats |-> flats]

(***************************************************************************)
(* The lazy Section 7 handle.                                              *)
(*   handle   : dataSize, buffer, open (originalReader # nil),             *)
(*              isFullyRead, readErr                                       *)
(*   upstream : the reader under io.LimitReader(reader, dataSize): the     *)
(*              bytes it can still supply, how many it has given, where it *)
(*              fails (failAt, NoSec for never), the most bytes one Read   *)
(*              call returns (burst), and the Read calls made (reads).     *)
(***************************************************************************)
chunkSize == 65536

\* uint32(length - 5)
DataSizeOf(length) == IF length >= 5 THEN length - 5 ELSE Huge

NewSection7FromDataReader(length) ==
    [dataSize |-> DataSizeOf(length), buffer |-> << >>, open |-> TRUE,
     isFullyRead |-> FALSE, readErr |-> "nil"]

\* one Read(chunk) of the limited upstream reader
UpstreamRead(up, dataSize, want) ==
    LET limited == Min(want, dataSize - up.pos)
        n == Min(Min(limited, Len(up.data) - up.pos), up.burst)
    IN  IF dataSize - up.pos <= 0 THEN [n |-> 0, err |-> "EOF"]
        ELSE IF up.failAt # NoSec /\ up.pos >= up.failAt THEN [n |-> 0, err |-> "Io"]
        ELSE IF Len(up.data) - up.pos = 0 THEN [n |-> 0, err |-> "EOF"]
        ELSE [n |-> n, err |-> "nil"]

\* the for loop of readChunk
RECURSIVE ReadChunkLoop(_, _, _)
ReadChunkLoop(h, up, targetSize) ==
    IF ~(Len(h.buffer) < targetSize /\ h.open) THEN [h |-> h, up |-> up]
    ELSE LET remainingNeed == targetSize - Len(h.buffer)
             currentChunkSize == IF remainingNeed < chunkSize THEN remainingNeed ELSE chunkSize
             r == UpstreamRead(up, h.dataSize, currentChunkSize)
             buf1 == h.buffer \o SubSeq(up.data, up.pos + 1, up.pos + r.n)
             up1 == [up EXCEPT !.pos = @ + r.n, !.reads = @ + 1]
         IN  IF r.err = "EOF"
             THEN [h |-> [h EXCEPT !.buffer = buf1, !.isFullyRead = TRUE, !.open = FALSE], up |-> up1]
             ELSE IF r.err # "nil"
             THEN [h |-> [h EXCEPT !.buffer = buf1, !.readErr = r.err], up |-> up1]
             ELSE IF Len(buf1) >= h.dataSize
             THEN [h |-> [h EXCEPT !.buffer = buf1, !.isFullyRead = TRUE, !.open = FALSE], up |-> up1]
             ELSE ReadChunkLoop([h EXCEPT !.buffer = buf1], up1, targetSize)

\* readChunk without its first return: it reads on in a terminal state
readChunkAgain(h, up, minBytes) ==
    IF Len(h.buffer) >= minBytes THEN [h |-> h, up |-> up]
    ELSE ReadChunkLoop(h, up, IF minBytes > h.dataSize THEN h.dataSize ELSE minBytes)

\* section7.readChunk, the whole of it runs under mu.Lock
readChunk(h, up, minBytes) ==
    IF h.isFullyRead \/ h.readErr # "nil" THEN [h |-> h, up |-> up]
    ELSE IF Len(h.buffer) >= minBytes THEN [h |-> h, up |-> up]
    ELSE ReadChunkLoop(h, up, IF minBytes > h.dataSize THEN h.dataSize ELSE minBytes)

\* the read-locked part of section7.Data: nil on error, else a copy of the buffer
DataResult(h) == IF h.readErr # "nil" THEN << >> ELSE h.buffer

\* bytes the reader of section7Reader.Read asks readChunk for
ReadNeeded(h, offset, plen) ==
    IF offset + plen > h.dataSize THEN h.dataSize ELSE offset + plen

\* the read-locked part of section7Reader.Read
ReadResult(h, offset, plen) ==
    LET available == Len(h.buffer) - offset
        toCopy == IF available > plen THEN plen ELSE available
    IN  IF h.readErr # "nil" THEN [n |-> 0, err |-> h.readErr, b |-> << >>]
        ELSE IF available = 0 THEN [n |-> 0, err |-> "EOF", b |-> << >>]
        ELSE [n |-> toCopy, err |-> "nil", b |-> SubSeq(h.buffer, offset + 1, offset + toCopy)]

(***************************************************************************)
(* The sequential reader: Reader.ReadSection.                              *)
(***************************************************************************)
\* the stream behind a Section 7 read from the file at pos: a bytes.Reader
FileUpstream(f, pos) ==
    [data |-> SubSeq(f, pos + 1, Len(f)), pos |-> 0, failAt |-> NoSec, burst |-> Huge, reads |-> 0]

\* what ReadSection returns, and where the stream stands afterwards
ReaderReadSection(f, pos) ==
    LET sec == SectionReadSection(f, pos, Len(f))
        pos1 == pos + sec.consumed
        h0 == NewSection7FromDataReader(sec.length)
        drained == readChunk(h0, FileUpstream(f, pos1), h0.dataSize)
    IN  IF sec.res = "ok" /\ sec.num = 7
        THEN [sec |-> sec, pos |-> pos1 + drained.up.pos]
        ELSE [sec |-> sec, pos |-> pos1]

(***************************************************************************)
(* Reader.buildMessages over the cached sections r.sections.               *)
(* A cached section is [num, length, id, disc, edition, total]; id is the  *)
(* stream position its first byte was read at.                             *)
(***************************************************************************)
getSectionLength(sec) ==
    CASE sec.num = 0 -> 16
      [] sec.num = 8 -> 4
      [] OTHER -> sec.length

\* Reader.buildSectionInfo: from the last Section 0 at or before endIndex
RECURSIVE SectionInfosFrom(_, _, _, _)
SectionInfosFrom(sections, i, endIndex, secOffset) ==
    IF i > endIndex THEN << >>
    ELSE << SectionInfo(sections[i].num, secOffset, getSectionLength(sections[i])) >>
         \o SectionInfosFrom(sections, i + 1, endIndex, secOffset + getSectionLength(sections[i]))

buildSectionInfo(sections, msgOffset, endIndex) ==
    LET zeros == {i \in 1..endIndex : sections[i].num = 0}
        startIndex == IF zeros = {} THEN 1 ELSE CHOOSE i \in zeros : \A j \in zeros : j <= i
    IN  SectionInfosFrom(sections, startIndex, endIndex, msgOffset)

NoBlock == [LocalUse |-> NoSec, Grids |-> << >>]

NoGrid == [GridDef |-> NoSec, Fields |-> << >>]

SeqBuildInit ==
    [messages |-> << >>, offset |-> 0,
     hasMsg |-> FALSE, msg |-> [Info |-> << >>, Indicator |-> NoSec, Identification |-> NoSec,
                               End |-> NoSec, Blocks |-> << >>],
     hasLocal |-> FALSE, local |-> NoBlock,
     hasGrid |-> FALSE, grid |-> NoGrid,
     hasField |-> FALSE, field |-> NewDataField(NoSec)]

MessageInfo(index, offset, length, disc, edition, sections) ==
    [Index |-> index, Offset |-> offset, Length |-> length, Discipline |-> disc,
     Edition |-> edition, Sections |-> sections]

\* finalizeDataField, finalizeGridBlock, finalizeLocalBlock: append a copy to the parent
finalizeDataField(hasGrid, grid, hasField, field) ==
    IF hasGrid /\ hasField THEN [grid EXCEPT !.Fields = Append(@, field)] ELSE grid

finalizeGridBlock(hasLocal, local, hasGrid, grid) ==
    IF hasLocal /\ hasGrid THEN [local EXCEPT !.Grids = Append(@, grid)] ELSE local

finalizeLocalBlock(msg, hasLocal, local) ==
    IF hasLocal THEN [msg EXCEPT !.Blocks = Append(@, local)] ELSE msg

\* the switch of buildMessages for the i-th cached section
SeqBuildStep(st, sections, i) ==
    LET sec == sections[i]
        st1 ==
          CASE sec.num = 0 ->
                 LET msgs == IF st.hasMsg THEN Append(st.messages, st.msg) ELSE st.messages
                 IN  [st EXCEPT !.messages = msgs, !.hasMsg = TRUE,
                        !.msg = [Info |-> MessageInfo(Len(msgs), st.offset, sec.total, sec.disc,
                                                      sec.edition, << >>),
                                 Indicator |-> sec.id, Identification |-> NoSec,
                                 End |-> NoSec, Blocks |-> << >>],
                        !.hasLocal = FALSE, !.hasGrid = FALSE, !.hasField = FALSE]
            [] sec.num = 1 ->
                 IF st.hasMsg THEN [st EXCEPT !.msg.Identification = sec.id] ELSE st
            [] sec.num = 2 ->
                 IF st.hasMsg
                 THEN [st EXCEPT !.msg = finalizeLocalBlock(st.msg, st.hasLocal, st.local),
                                 !.hasLocal = TRUE, !.local = [LocalUse |-> sec.id, Grids |-> << >>],
                                 !.hasGrid = FALSE, !.hasField = FALSE]
                 ELSE st
            [] sec.num = 3 ->
                 IF st.hasMsg
                 THEN LET local0 == IF st.hasLocal THEN st.local ELSE NoBlock
                      IN  [st EXCEPT !.hasLocal = TRUE,
                                     !.local = finalizeGridBlock(TRUE, local0, st.hasGrid, st.grid),
                                     !.hasGrid = TRUE, !.grid = [GridDef |-> sec.id, Fields |-> << >>],
                                     !.hasField = FALSE]
                 ELSE st
            [] sec.num = 4 ->
                 IF st.hasGrid
                 THEN [st EXCEPT !.grid = finalizeDataField(TRUE, st.grid, st.hasField, st.field),
                                 !.hasField = TRUE, !.field = NewDataField(sec.id)]
                 ELSE st
            [] sec.num = 5 -> IF st.hasField THEN [st EXCEPT !.field.DataRep = sec.id] ELSE st
            [] sec.num = 6 -> IF st.hasField THEN [st EXCEPT !.field.Bitmap = sec.id] ELSE st
            [] sec.num = 7 -> IF st.hasField THEN [st EXCEPT !.field.Data = sec.id] ELSE st
            [] sec.num = 8 ->
                 IF st.hasMsg
                 THEN LET grid1 == finalizeDataField(st.hasGrid, st.grid, st.hasField, st.field)
                          local1 == finalizeGridBlock(st.hasLocal, st.local, st.hasGrid, grid1)
                          msg1 == finalizeLocalBlock(st.msg, st.hasLocal, local1)
                          msg2 == [msg1 EXCEPT !.End = sec.id,
                                     !.Info.Sections = buildSectionInfo(sections, st.msg.Info.Offset, i)]
                      IN  [st EXCEPT !.messages = Append(@, msg2), !.hasMsg = FALSE,
                                     !.hasLocal = FALSE, !.hasGrid = FALSE, !.hasField = FALSE]
                 ELSE st
            [] OTHER -> st
    IN  [st1 EXCEPT !.offset = st.offset + getSectionLength(sec)]

RECURSIVE SeqBuildFold(_, _, _)
SeqBuildFold(st, sections, i) ==
    IF i > Len(sections) THEN st ELSE SeqBuildFold(SeqBuildStep(st, sections, i), sections, i + 1)

\* r.messages after buildMessages
buildMessages(sections) == SeqBuildFold(SeqBuildInit, sections, 1).messages

(***************************************************************************)
(* The input files.                                                        *)
(***************************************************************************)
StdNums == << 1, 3, 4, 5, 7, 8 >>

StdMsg == MsgBytes(0, StdNums)

Files ==
    << StdMsg,                                                        \* 1 one message, one field
       MsgBytes(0, << 1, 3, 4, 5, 6, 7, 8 >>) \o MsgBytes(10, StdNums), \* 2 two messages
       MsgBytes(0, << 1, 3, 4, 5, 7, 4, 5, 7, 8 >>) \o MsgBytes(0, << 1, 8 >>) \o StdMsg,
                                                                      \* 3 two fields, none, one
       MsgBytes(0, << 1, 2, 3, 4, 5, 7, 3, 4, 5, 7, 2, 3, 4, 5, 6, 7, 8 >>),
                                                                      \* 4 local and grid blocks
       MsgBytes(0, << 1, 3, 4, 5, 8 >>) \o StdMsg,                    \* 5 field without S7
       MsgBytes(0, << 1, 3, 4, 7, 8 >>) \o StdMsg,                    \* 6 field without S5
       MsgBytesDeclared(0, << 1, 8 >>, 0),                            \* 7 totalLength 0
       MsgBytesDeclared(0, StdNums, Len(StdMsg) - 4),                 \* 8 totalLength ends before S8
       SubSeq(StdMsg \o StdMsg, 1, Len(StdMsg) + 50),                 \* 9 file cut inside message 2
       MsgBytesDeclared(0, StdNums, 40),                              \* 10 a section runs past totalLength
       << 88, 82, 73, 66 >> \o Tail(Tail(Tail(Tail(StdMsg)))),        \* 11 bad magic at offset 0
       StdMsg \o << 88, 82, 73, 66 >> \o Tail(Tail(Tail(Tail(StdMsg)))), \* 12 bad magic at message 2
       MsgBytes(0, << 1, 3, 5, 7, 8 >>),                              \* 13 S5 and S7 without S4
       Sec0Bytes(0, 16 + 21 + 10 + 4) \o SecBytes(1, 21) \o SecBytes(3, 10) \o End7777 \o StdMsg,
                                                                      \* 14 S3 too short to decode
       << >>,                                                         \* 15 empty file
       MsgBytes(0, << 3, 4, 5, 7, 8 >>),                              \* 16 no S1
       MsgBytes(0, << 1, 4, 5, 7, 8 >>) \o StdMsg,                    \* 17 no S3
       MsgBytesDeclared(0, StdNums, 200),                             \* 18 totalLength past the end
       MsgBytesDeclared(0, << 1 >>, 37) \o StdMsg,                    \* 19 message without S8
       MsgBytes(0, << 1, 3, 4, 5, 7, 3, 8 >>) \o MsgBytes(0, << 1, 2, 8 >>), \* 20 S2 in message 2
       StdMsg \o SecBytes(1, 21),                                     \* 21 a section where a message should start
       Sec0Bytes(0, 16 + 21 + 14 + 9 + 11 + 5 + 4) \o BodyBytes(<< 1, 3, 4, 5 >>)
           \o << 0, 0, 0, 3, 7 >> \o End7777,                         \* 22 Section 7 declaring length 3
       Sec0Bytes(0, 16 + 21 + 5 + 4) \o SecBytes(1, 21) \o << 0, 0, 0, 3, 3 >> \o End7777,
                                                                      \* 23 Section 3 declaring length 3
       Sec0Bytes(0, 16 + 21 + 6 + 4) \o SecBytes(1, 21) \o SecBytes(9, 6) \o End7777 \o StdMsg,
                                                                      \* 24 a section numbered 9
       Sec0Bytes(0, 16 + 21 + 6 + 14 + 4) \o SecBytes(1, 21) \o SecBytes(8, 6) \o SecBytes(3, 14)
           \o End7777 \o StdMsg,                                      \* 25 a section numbered 8
       StdMsg \o MsgBytesDeclared(0, << 1, 3 >>, 16 + 21 + 14),       \* 26 last message without S8
       StdMsg \o SubSeq(StdMsg, 1, Len(StdMsg) - 5),                  \* 27 stream ends inside a Section 7
       MsgBytes(0, << 1, 3, 5, 7, 8 >>) \o StdMsg,                    \* 28 S5 and S7 without S4, then a message
       Sec0Bytes(0, 16 + 21 + 16 + 4) \o SecBytes(1, 21) \o SecBytes(0, 16) \o End7777,
                                                                      \* 29 a section numbered 0
       MsgBytes(0, << 1, 3, 4, 5, 7, 3, 4, 5, 7, 8 >>)                \* 30 two grid blocks
    >>

(***************************************************************************)
(* State of one run of a reader over one file.                             *)
(***************************************************************************)
VARIABLES
    fileNo,        \* the file read: Files[fileNo]
    api,           \* "at": ReaderAt.EachMessage, "flat": ReaderAt.EachFlatMessage,
                   \* "seq": Reader.ReadSection / Reader.EachMessage,
                   \* "rsat": ReaderAt.ReadSectionAt,
                   \* "s7": one client of a Section 7 handle, "conc": several,
                   \* "bytes": one call of a decoder of a byte slice,
                   \* "extract": extractProductInfo and extractGridInfo on one field
    pc,            \* "scan", "deliver", "read", "iter", "done", "panic"
    err,           \* the error the call returned ("nil" for none)
    offset,        \* ReaderAt.EachMessage: offset
    messageIndex,  \* ReaderAt.EachMessage: messageIndex
    calls,         \* what the EachMessage callback received: [index, info]
    rets,          \* what the caller's callback returned, call by call
    flatIndex,     \* ReaderAt.EachFlatMessage: flatIndex
    pending,       \* flat messages of the current message not yet delivered
    flatCalls,     \* what the EachFlatMessage callback received: [index, flat]
    pos,           \* Reader: bytes of the stream consumed
    sections,      \* Reader.sections
    messages,      \* Reader.messages
    iter,          \* Reader.EachMessage: messages handed to the callback
    lastRead,      \* the last Reader.ReadSection: where it started, what it returned
    lastAt,        \* the last ReaderAt.ReadSectionAt: the offset, what it returned
    h,             \* the section7 handle: dataSize, buffer, originalReader, isFullyRead, readErr
    up,            \* the stream behind the handle: data, pos, failAt, burst
    ops,           \* operations the single client has made
    rd,            \* the client's section7Reader: state, offset, bytes it has returned
    dataRets,      \* what each Data() call returned
    slice,         \* the slice the last Data() call returned, in the caller's hands,
                   \* and how many bytes the caller has written into such slices
    thr,           \* the threads sharing the handle
    decNum,        \* the decoder called on a byte slice: NewSection<decNum>FromBytes
    decData,       \* the byte slice handed to it
    decOut,        \* what it returned (DecNone before the call)
    round,         \* 1 during the first call on a reader, 2 during the second
    first,         \* what the first call delivered and returned
    exIn,          \* the Section 3, 4 and 5 of a data field handed to the extraction
    exOut          \* the Grid, Product and DataRep of the FlatMessage (ExNone before)

readerVars == << fileNo, pc, err, offset, messageIndex, calls, rets, flatIndex, pending,
                 flatCalls, pos, sections, messages, iter, lastRead, lastAt >>

s7Vars == << h, up, ops, rd, dataRets, slice, thr >>

decVars == << decNum, decData, decOut >>

runVars == << round, first >>

exVars == << exIn, exOut >>

vars == << api, readerVars, s7Vars, decVars, runVars, exVars >>

File == Files[fileNo]

NoRead == [start |-> 0, res |-> "none", num |-> NoSec, length |-> 0]

NoReader == [state |-> "none", offset |-> 0, bytes |-> << >>, empty |-> FALSE]

NoSlice == [b |-> << >>, shared |-> FALSE, writes |-> 0]

ReaderIdle ==
    /\ pc = "done"
    /\ err = "nil"
    /\ offset = 0
    /\ messageIndex = 0
    /\ calls = << >>
    /\ rets = << >>
    /\ flatIndex = 0
    /\ pending = << >>
    /\ flatCalls = << >>
    /\ pos = 0
    /\ sections = << >>
    /\ messages = << >>
    /\ iter = 0
    /\ lastRead = NoRead
    /\ lastAt = NoRead

S7Idle ==
    /\ h = NewSection7FromDataReader(5)
    /\ up = [data |-> << >>, pos |-> 0, failAt |-> NoSec, burst |-> Huge, reads |-> 0]
    /\ ops = 0
    /\ rd = NoReader
    /\ dataRets = << >>
    /\ slice = NoSlice
    /\ thr = << >>

DecNone == [err |-> "none", num |-> NoSec, length |-> 0, body |-> << >>, entries |-> 0]

DecIdle ==
    /\ decNum = 0
    /\ decData = << >>
    /\ decOut = DecNone

NoRun == [calls |-> << >>, rets |-> << >>, err |-> "none", pc |-> "none", at |-> NoRead]

RunIdle ==
    /\ round = 1
    /\ first = NoRun

ExNone == [done |-> FALSE]

NoSections == [gridDef |-> << >>, productDef |-> << >>, dataRep |-> << >>]

ExIdle ==
    /\ exIn = NoSections
    /\ exOut = ExNone

Init ==
    /\ fileNo \in 1..Len(Files)
    /\ api \in {"at", "flat", "seq", "rsat"}
    /\ pc = (IF api = "seq" THEN "read" ELSE "scan")
    /\ err = "nil"
    /\ offset = 0
    /\ messageIndex = 0
    /\ calls = << >>
    /\ rets = << >>
    /\ flatIndex = 0
    /\ pending = << >>
    /\ flatCalls = << >>
    /\ pos = 0
    /\ sections = << >>
    /\ messages = << >>
    /\ iter = 0
    /\ lastRead = NoRead
    /\ lastAt = NoRead
    /\ S7Idle
    /\ DecIdle
    /\ RunIdle
    /\ ExIdle

(***************************************************************************)
(* ReaderAt.EachMessage: one turn of the for loop up to the callback.      *)
(***************************************************************************)
AtScanMessage(f, off, index) ==
    LET first4 == ReadAt(f, off, 4)
        header == ReadAt(f, off, 16)
        totalLength == BE64(SubSeq(header.b, 9, 16))
        scan == scanSectionsInRange(f, off, off + totalLength)
    IN  IF ~first4.ok THEN [kind |-> "eof", err |-> "nil"]
        ELSE IF first4.b # GRIB THEN [kind |-> "err", err |-> "InvalidMagic"]
        ELSE IF ~header.ok THEN [kind |-> "err", err |-> "Io"]
        ELSE IF scan.err # "nil" THEN [kind |-> "err", err |-> scan.err]
        ELSE [kind |-> "msg", err |-> "nil",
              info |-> MessageInfo(index, off, totalLength, header.b[7], header.b[8], scan.sections)]

\* a loop that does not look at the callback's verdict
ContinueAlways(ret) == TRUE

\* the callback's verdict: true goes on, false breaks out of the loop
Continue(ret) == ret

AtEachMessage ==
    /\ api = "at" /\ pc = "scan" /\ messageIndex < MaxMsgs
    /\ LET m == AtScanMessage(File, offset, messageIndex)
       IN  IF m.kind # "msg"
           THEN /\ pc' = "done" /\ err' = m.err
                /\ UNCHANGED << offset, messageIndex, calls, rets >>
           ELSE /\ calls' = Append(calls, [index |-> messageIndex, info |-> m.info])
                /\ \E ret \in BOOLEAN :
                     /\ rets' = Append(rets, ret)
                     /\ IF Continue(ret)
                        THEN /\ offset' = offset + m.info.Length
                             /\ messageIndex' = messageIndex + 1
                             /\ UNCHANGED << pc, err >>
                        ELSE /\ pc' = "done" /\ err' = "nil"
                             /\ UNCHANGED << offset, messageIndex >>
    /\ UNCHANGED << fileNo, api, flatIndex, pending, flatCalls, pos, sections, messages, iter, lastRead, lastAt, s7Vars, decVars, runVars, exVars >>

(***************************************************************************)
(* ReaderAt.EachFlatMessage: the closure it hands to EachMessage builds    *)
(* and flattens the message, then calls the caller's callback per field.   *)
(***************************************************************************)
FlatEachMessage ==
    /\ api = "flat" /\ pc = "scan" /\ messageIndex < MaxMsgs
    /\ LET m == AtScanMessage(File, offset, messageIndex)
       IN  IF m.kind # "msg"
           THEN /\ pc' = "done" /\ err' = m.err
                /\ UNCHANGED << offset, messageIndex, calls, pending >>
           ELSE LET built == buildMessageFromInfo(File, m.info)
                    flat == FlattenToFlatMessages(m.info, built.msg)
                IN  /\ calls' = Append(calls, [index |-> messageIndex, info |-> m.info])
                    /\ IF built.err = "nil" /\ flat.panic
                       THEN /\ pc' = "panic"
                            /\ UNCHANGED << offset, messageIndex, pending, err >>
                       ELSE IF built.err = "nil" /\ flat.flats # << >>
                       THEN /\ pc' = "deliver" /\ pending' = flat.flats
                            /\ UNCHANGED << offset, messageIndex, err >>
                       ELSE /\ offset' = offset + m.info.Length
                            /\ messageIndex' = messageIndex + 1
                            /\ UNCHANGED << pc, err, pending >>
    /\ UNCHANGED << fileNo, api, rets, flatIndex, flatCalls, pos, sections, messages, iter, lastRead, lastAt, s7Vars, decVars, runVars, exVars >>

\* the Index left as FlattenToFlatMessages set it, counted within the message
SetIndexKept(flat, index) == flat

\* flatMsg.Index = flatIndex
SetIndex(flat, index) == [flat EXCEPT !.Index = index]

FlatDeliver ==
    /\ api = "flat" /\ pc = "deliver" /\ pending # << >>
    /\ flatCalls' = Append(flatCalls, [index |-> flatIndex, flat |-> SetIndex(Head(pending), flatIndex)])
    /\ \E ret \in BOOLEAN :
         /\ rets' = Append(rets, ret)
         /\ IF ~Continue(ret)
            THEN /\ pc' = "done" /\ err' = "nil"
                 /\ UNCHANGED << flatIndex, pending, offset, messageIndex >>
            ELSE /\ flatIndex' = flatIndex + 1
                 /\ pending' = Tail(pending)
                 /\ IF Tail(pending) = << >>
                    THEN /\ pc' = "scan"
                         /\ offset' = offset + calls[Len(calls)].info.Length
                         /\ messageIndex' = messageIndex + 1
                    ELSE UNCHANGED << pc, offset, messageIndex >>
                 /\ UNCHANGED err
    /\ UNCHANGED << fileNo, api, calls, pos, sections, messages, iter, lastRead, lastAt, s7Vars, decVars, runVars, exVars >>

(***************************************************************************)
(* Reader.ReadSection, called until it fails; on io.EOF Reader.EachMessage *)
(* builds the messages and iterates over them.                             *)
(***************************************************************************)
CachedSection(sec, start) ==
    [num |-> sec.num, length |-> sec.length, id |-> start, disc |-> sec.disc,
     edition |-> sec.edition, total |-> sec.total]

SeqReadSection ==
    /\ api = "seq" /\ pc = "read"
    /\ LET r == ReaderReadSection(File, pos)
       IN  /\ pos' = r.pos
           /\ lastRead' = [start |-> pos, res |-> r.sec.res, num |-> r.sec.num,
                           length |-> IF r.sec.res = "ok" THEN getSectionLength(r.sec) ELSE 0]
           /\ IF r.sec.res = "ok"
              THEN /\ sections' = Append(sections, CachedSection(r.sec, pos))
                   /\ UNCHANGED << pc, err, messages >>
              ELSE IF r.sec.res = "panic"
              THEN /\ pc' = "panic" /\ UNCHANGED << err, sections, messages >>
              ELSE IF r.sec.err = "EOF"
              THEN /\ pc' = "iter"
                   /\ messages' = (IF messages = << >> THEN buildMessages(sections) ELSE messages)
                   /\ UNCHANGED << err, sections >>
              ELSE /\ pc' = "done" /\ err' = r.sec.err
                   /\ UNCHANGED << sections, messages >>
    /\ UNCHANGED << fileNo, api, offset, messageIndex, calls, rets, flatIndex, pending, flatCalls, iter,
                    lastAt, s7Vars, decVars, runVars, exVars >>

SeqEachMessage ==
    /\ api = "seq" /\ pc = "iter"
    /\ IF iter < Len(messages)
       THEN /\ calls' = Append(calls, [index |-> iter, info |-> messages[iter + 1].Info])
            /\ iter' = iter + 1
            /\ \E ret \in BOOLEAN :
                 /\ rets' = Append(rets, ret)
                 /\ pc' = (IF Continue(ret) THEN "iter" ELSE "done")
            /\ UNCHANGED err
       ELSE /\ pc' = "done"
            /\ UNCHANGED << calls, iter, rets, err >>
    /\ UNCHANGED << fileNo, api, offset, messageIndex, flatIndex, pending, flatCalls, pos, sections, messages, lastRead, lastAt, s7Vars, decVars, runVars, exVars >>

(***************************************************************************)
(* ReaderAt.ReadSectionAt, called for any offset of the file.              *)
(***************************************************************************)
\* the offsets asked for: all whose 4 bytes stay below 2^31 as a length
AtOffsets(f) == { off \in 0..Len(f) : off < Len(f) => f[off + 1] < 128 }

AtReadSectionAt ==
    /\ api = "rsat" /\ pc = "scan"
    /\ \E off \in (IF round = 1 THEN AtOffsets(File) ELSE {first.at.start}) :
         LET r == ReadSectionAt(File, off)
         IN  /\ lastAt' = [start |-> off, res |-> r.res, num |-> r.num, length |-> r.length]
             /\ pc' = "done"
    /\ UNCHANGED << fileNo, api, err, offset, messageIndex, calls, rets, flatIndex, pending,
                    flatCalls, pos, sections, messages, iter, lastRead, s7Vars, decVars, runVars, exVars >>

(***************************************************************************)
(* A second call on the same reader once the first has returned:           *)
(* ReaderAt.EachMessage starts at offset 0 again, Reader.EachMessage goes  *)
(* on with the Reader's stream, sections and messages, ReadSectionAt is    *)
(* called at the same offset.                                              *)
(***************************************************************************)
CallAgain ==
    /\ api \in {"at", "seq", "rsat"} /\ pc = "done" /\ round = 1
    /\ round' = 2
    /\ first' = [calls |-> calls, rets |-> rets, err |-> err, pc |-> pc, at |-> lastAt]
    /\ pc' = (IF api = "seq" THEN "read" ELSE "scan")
    /\ err' = "nil"
    /\ offset' = 0
    /\ messageIndex' = 0
    /\ calls' = << >>
    /\ rets' = << >>
    /\ iter' = 0
    /\ UNCHANGED << fileNo, api, flatIndex, pending, flatCalls, pos, sections, messages, lastRead,
                    lastAt, s7Vars, decVars, exVars >>

Next ==
    \/ AtEachMessage \/ FlatEachMessage \/ FlatDeliver
    \/ SeqReadSection \/ SeqEachMessage
    \/ AtReadSectionAt
    \/ CallAgain

Spec == Init /\ [][Next]_vars

(***************************************************************************)
(* One client of a Section 7 handle made by NewSection7FromDataReader:     *)
(* Data(), DataReader(), Read on the reader, and writes into the slice     *)
(* Data() returned.                                                        *)
(***************************************************************************)
\* the streams a handle is put on: the bytes 11, 12, ...; fewer than dataSize
\* of them (the stream ends early), or a read that fails at failAt
Upstreams(dataSize) ==
    { [data |-> [i \in 1..avail |-> 10 + i], pos |-> 0, failAt |-> failAt, burst |-> burst,
       reads |-> 0] :
        avail \in 0..(dataSize + 1), failAt \in {NoSec} \cup 0..dataSize, burst \in {1, Huge} }

InitS7 ==
    /\ api = "s7"
    /\ fileNo = 1
    /\ ReaderIdle
    /\ \E dataSize \in 0..MaxPayload :
         /\ h = NewSection7FromDataReader(dataSize + 5)
         /\ up \in Upstreams(dataSize)
    /\ ops = 0
    /\ rd = NoReader
    /\ dataRets = << >>
    /\ slice = NoSlice
    /\ thr = << >>
    /\ DecIdle
    /\ RunIdle
    /\ ExIdle

\* Data() handing out the buffer itself
DataReturnBuffer(hh) == [b |-> DataResult(hh), shared |-> TRUE]

\* what Data() hands out: the bytes, and whether they share the buffer's storage
DataReturn(hh) == [b |-> DataResult(hh), shared |-> FALSE]

S7Data ==
    /\ api = "s7" /\ ops < MaxOps
    /\ LET r == readChunk(h, up, h.dataSize)
       IN  /\ h' = r.h /\ up' = r.up
           /\ dataRets' = Append(dataRets, DataResult(r.h))
           /\ slice' = [b |-> DataReturn(r.h).b, shared |-> DataReturn(r.h).shared,
                        writes |-> slice.writes]
    /\ ops' = ops + 1
    /\ UNCHANGED << api, readerVars, decVars, runVars, exVars, rd, thr >>

S7DataReader ==
    /\ api = "s7" /\ ops < MaxOps
    /\ rd' = [state |-> "open", offset |-> 0, bytes |-> << >>, empty |-> FALSE]
    /\ ops' = ops + 1
    /\ UNCHANGED << api, readerVars, decVars, runVars, exVars, h, up, dataRets, slice, thr >>

S7Read ==
    /\ api = "s7" /\ ops < MaxOps /\ rd.state = "open"
    /\ \E plen \in 0..MaxBuf :
         LET r == readChunk(h, up, ReadNeeded(h, rd.offset, plen))
             res == ReadResult(r.h, rd.offset, plen)
         IN  /\ h' = r.h /\ up' = r.up
             /\ rd' = IF res.err = "EOF" THEN [rd EXCEPT !.state = "eof", !.empty = @ \/ plen = 0]
                      ELSE IF res.err # "nil" THEN [rd EXCEPT !.state = "err", !.empty = @ \/ plen = 0]
                      ELSE [rd EXCEPT !.offset = @ + res.n, !.bytes = @ \o res.b,
                                      !.empty = @ \/ plen = 0]
    /\ ops' = ops + 1
    /\ UNCHANGED << api, readerVars, decVars, runVars, exVars, dataRets, slice, thr >>

\* the caller writes a byte into the slice it got from Data()
S7Overwrite ==
    /\ api = "s7" /\ ops < MaxOps /\ slice.b # << >>
    /\ \E i \in 1..Len(slice.b) :
         /\ slice' = [slice EXCEPT !.b[i] = 0, !.writes = @ + 1]
         /\ h' = IF slice.shared THEN [h EXCEPT !.buffer[i] = 0] ELSE h
    /\ ops' = ops + 1
    /\ UNCHANGED << api, readerVars, decVars, runVars, exVars, up, rd, dataRets, thr >>

NextS7 == S7Data \/ S7DataReader \/ S7Read \/ S7Overwrite

SpecS7 == InitS7 /\ [][NextS7]_vars

(***************************************************************************)
(* Several threads on one handle.  Each calls Data() once, or reads one    *)
(* DataReader() until it reports an error or io.EOF.  readChunk runs      *)
(* under mu.Lock; the copy that follows under mu.RLock.                    *)
(***************************************************************************)
Threads == 1..NThreads

InitConc ==
    /\ api = "conc"
    /\ fileNo = 1
    /\ ReaderIdle
    /\ \E dataSize \in 0..MaxPayload :
         /\ h = NewSection7FromDataReader(dataSize + 5)
         /\ up \in Upstreams(dataSize)
    /\ ops = 0
    /\ rd = NoReader
    /\ dataRets = << >>
    /\ slice = NoSlice
    /\ thr \in [Threads -> { [kind |-> k, pc |-> "idle", offset |-> 0, plen |-> 0,
                              bytes |-> << >>, err |-> "nil", empty |-> FALSE] :
                                k \in {"data", "reader"} }]
    /\ DecIdle
    /\ RunIdle
    /\ ExIdle

ConcDataLock ==
    /\ api = "conc"
    /\ \E t \in Threads :
         /\ thr[t].kind = "data" /\ thr[t].pc = "idle"
         /\ LET r == readChunk(h, up, h.dataSize)
            IN  h' = r.h /\ up' = r.up
         /\ thr' = [thr EXCEPT ![t].pc = "copy"]
    /\ UNCHANGED << api, readerVars, decVars, runVars, exVars, ops, rd, dataRets, slice >>

ConcDataCopy ==
    /\ api = "conc"
    /\ \E t \in Threads :
         /\ thr[t].kind = "data" /\ thr[t].pc = "copy"
         /\ thr' = [thr EXCEPT ![t].pc = "done", ![t].bytes = DataResult(h),
                               ![t].err = h.readErr]
    /\ UNCHANGED << api, readerVars, decVars, runVars, exVars, h, up, ops, rd, dataRets, slice >>

ConcReadLock ==
    /\ api = "conc"
    /\ \E t \in Threads, plen \in 0..MaxBuf :
         /\ thr[t].kind = "reader" /\ thr[t].pc = "idle"
         /\ LET r == readChunk(h, up, ReadNeeded(h, thr[t].offset, plen))
            IN  h' = r.h /\ up' = r.up
         /\ thr' = [thr EXCEPT ![t].pc = "copy", ![t].plen = plen,
                               ![t].empty = @ \/ plen = 0]
    /\ UNCHANGED << api, readerVars, decVars, runVars, exVars, ops, rd, dataRets, slice >>

ConcReadCopy ==
    /\ api = "conc"
    /\ \E t \in Threads :
         /\ thr[t].kind = "reader" /\ thr[t].pc = "copy"
         /\ LET res == ReadResult(h, thr[t].offset, thr[t].plen)
            IN  thr' = IF res.err = "EOF" THEN [thr EXCEPT ![t].pc = "done"]
                       ELSE IF res.err # "nil" THEN [thr EXCEPT ![t].pc = "done", ![t].err = res.err]
                       ELSE [thr EXCEPT ![t].pc = "idle", ![t].offset = @ + res.n,
                                        ![t].bytes = @ \o res.b]
    /\ UNCHANGED << api, readerVars, decVars, runVars, exVars, h, up, ops, rd, dataRets, slice >>

NextConc == ConcDataLock \/ ConcDataCopy \/ ConcReadLock \/ ConcReadCopy

SpecConc == InitConc /\ [][NextConc]_vars

(***************************************************************************)
(* One call of a decoder of a byte slice, NewSection<n>FromBytes, on a     *)
(* slice that holds the first bytes of a section.                          *)
(***************************************************************************)
\* the sections decoded from a slice
DecNums == {1, 3, 4, 5, 6}

Ones(n) == [i \in 1..n |-> 1]

\* a section that declares `length`, with k list octets (Section 3), k \div 4
\* coordinate values (Section 4), bit-map indicator 0 or 255 (Section 6); one
\* byte more than declared follows it
SectionImage(num, length, k) ==
    LET fixed == CASE num = 1 -> Ones(16)
                   [] num = 3 -> << 1, 0, 0, 0, 1, k, 0, 0, 1 >>
                   [] num = 4 -> << 0, k \div 4, 0, 1 >>
                   [] num = 5 -> << 0, 0, 0, 1, 0, 1 >>
                   [] OTHER -> << IF k = 0 THEN 0 ELSE 255 >>
    IN  PutBE32(length) \o << num >> \o fixed \o Ones(length - MinLen(num) + 1)

InitBytes ==
    /\ api = "bytes"
    /\ fileNo = 1
    /\ ReaderIdle
    /\ S7Idle
    /\ decNum \in DecNums
    /\ \E length \in 0..MaxDeclared, k \in {0, 4} :
         \E n \in 0..Len(SectionImage(decNum, length, k)) :
            decData = SubSeq(SectionImage(decNum, length, k), 1, n)
    /\ decOut = DecNone
    /\ RunIdle
    /\ ExIdle

\* the call
BytesDecode ==
    /\ api = "bytes" /\ decOut = DecNone
    /\ decOut' = DecodeBytes(decNum, decData)
    /\ UNCHANGED << api, readerVars, s7Vars, runVars, exVars, decNum, decData >>

NextBytes == BytesDecode

SpecBytes == InitBytes /\ [][NextBytes]_vars

(***************************************************************************)
(* FlatMessage.extractProductInfo and FlatMessage.extractGridInfo on one   *)
(* data field: its Section 3, 4 and 5 are decoded from bytes, then the     *)
(* Grid, Product and DataRep of the FlatMessage are filled in.             *)
(***************************************************************************)
PutBE16(n) == << (n \div 256) % 256, n % 256 >>

\* template bytes: none is zero, neighbours differ
TemplateBytes(n) == [i \in 1..n |-> (i % 100) + 1]

\* template numbers stored in the sections
TemplateNumbers == {0, 1, 256}

\* sizes of the grid definition template
GridTemplateSizes == {58, 72}

\* sizes of the product definition template
ProductTemplateSizes == {24, 25, 34}

Section3Bytes(number, size) ==
    PutBE32(14 + size) \o << 3, 0, 0, 0, 0, 1, 0, 0 >> \o PutBE16(number) \o TemplateBytes(size)

Section4Bytes(number, size) ==
    PutBE32(9 + size) \o << 4, 0, 0 >> \o PutBE16(number) \o TemplateBytes(size)

Section5Bytes(number) == PutBE32(11) \o << 5, 0, 0, 0, 1 >> \o PutBE16(number)

\* the uint16 the decoder stores, and the accessor's uint8(...) of it
gridDefinitionTemplateNumber(data) == BE16(SubSeq(data, 13, 14))

GridDefinitionTemplateNumber(data) == gridDefinitionTemplateNumber(data) % 256

productDefinitionTemplateNumber(data) == BE16(SubSeq(data, 8, 9))

ProductDefinitionTemplateNumber(data) == productDefinitionTemplateNumber(data) % 256

dataRepresentationTemplateNumber(data) == BE16(SubSeq(data, 10, 11))

DataRepresentationTemplateNumber(data) == dataRepresentationTemplateNumber(data) % 256

\* f.ProductDef.(interface{ productDefinitionTemplate() []byte }) and the like:
\* no section type has such a method, the assertion yields ok = false
HasTemplateMethod(num) == FALSE

NoProduct == [Category |-> 0, Parameter |-> 0, ForecastTime |-> 0]

\* extractFromProductTemplate
extractFromProductTemplate(templateData) ==
    IF Len(templateData) < 34 THEN NoProduct
    ELSE [Category |-> templateData[1], Parameter |-> templateData[2],
          ForecastTime |-> BE32(SubSeq(templateData, 10, 13))]

\* extractProductTemplate
extractProductTemplate(productDef) ==
    IF HasTemplateMethod(4) THEN extractFromProductTemplate(NewSection4FromBytes(productDef).body)
    ELSE NoProduct

NoLatLon == [nil |-> TRUE, NumberOfGridPointsAlongX |-> 0]

\* extractFromGridTemplate
extractFromGridTemplate(templateData, templateNumber) ==
    IF templateNumber = 0 /\ Len(templateData) >= 72
    THEN [nil |-> FALSE, NumberOfGridPointsAlongX |-> BE32(SubSeq(templateData, 17, 20))]
    ELSE NoLatLon

\* extractGridTemplate
extractGridTemplate(gridDef) ==
    IF HasTemplateMethod(3)
    THEN extractFromGridTemplate(NewSection3FromBytes(gridDef).body,
                                 GridDefinitionTemplateNumber(gridDef))
    ELSE NoLatLon

\* extractProductInfo and extractGridInfo
ExtractInfo(in) ==
    [done |-> TRUE,
     Product |-> [TemplateNumber |-> ProductDefinitionTemplateNumber(in.productDef),
                  fields |-> extractProductTemplate(in.productDef)],
     Grid |-> [TemplateNumber |-> GridDefinitionTemplateNumber(in.gridDef),
               LatLon |-> extractGridTemplate(in.gridDef)],
     DataRep |-> [TemplateNumber |-> DataRepresentationTemplateNumber(in.dataRep)]]

InitExtract ==
    /\ api = "extract"
    /\ fileNo = 1
    /\ ReaderIdle
    /\ S7Idle
    /\ DecIdle
    /\ RunIdle
    /\ \E g \in TemplateNumbers, gs \in GridTemplateSizes, p \in TemplateNumbers,
          ps \in ProductTemplateSizes, d \in TemplateNumbers :
         exIn = [gridDef |-> Section3Bytes(g, gs), productDef |-> Section4Bytes(p, ps),
                 dataRep |-> Section5Bytes(d)]
    /\ exOut = ExNone

ExtractFlat ==
    /\ api = "extract" /\ exOut = ExNone
    /\ NewSection3FromBytes(exIn.gridDef).err = "nil"
    /\ NewSection4FromBytes(exIn.productDef).err = "nil"
    /\ NewSection5FromBytes(exIn.dataRep).err = "nil"
    /\ exOut' = ExtractInfo(exIn)
    /\ UNCHANGED << api, readerVars, s7Vars, decVars, runVars, exIn >>

NextExtract == ExtractFlat

SpecExtract == InitExtract /\ [][NextExtract]_vars

(***************************************************************************)
(* Properties.                                                             *)
(***************************************************************************)
\* the calls made to the caller's callback
UserCalls == IF api = "flat" THEN Len(flatCalls) ELSE Len(calls)

RECURSIVE SumLengths(_)
SumLengths(secs) == IF secs = << >> THEN 0 ELSE Head(secs).Length + SumLengths(Tail(secs))

\* where the sections that start at p end: just past the first "7777" reached
\* by following the declared lengths of sections numbered 1 to 7, NoSec if the
\* bytes run out first, a section has another number or a section is shorter
\* than its fixed part
RECURSIVE RefWalk(_, _)
RefWalk(f, p) ==
    IF p + 4 > Len(f) THEN NoSec
    ELSE IF SubSeq(f, p + 1, p + 4) = End7777 THEN p + 4
    ELSE IF BE32(SubSeq(f, p + 1, p + 4)) < 5 THEN NoSec
    ELSE IF p + 5 > Len(f) THEN NoSec
    ELSE IF f[p + 5] \notin 1..7 THEN NoSec
    ELSE IF BE32(SubSeq(f, p + 1, p + 4)) < MinLen(f[p + 5]) THEN NoSec
    ELSE IF BE32(SubSeq(f, p + 1, p + 4)) > Len(f) THEN NoSec
    ELSE RefWalk(f, p + BE32(SubSeq(f, p + 1, p + 4)))

\* the bytes of f at off are a message that declares total bytes and whose
\* sections, numbered 1 to 7 and none shorter than its fixed part, end with a
\* Section 8 exactly there
WellFormedAt(f, off, total) ==
    /\ off + 16 <= Len(f)
    /\ SubSeq(f, off + 1, off + 4) = GRIB
    /\ RefWalk(f, off + 16) = off + total

\* C1: once the callback has returned false no further call is made, and the
\* iteration has ended with a nil error; every call made has been answered.
C1_EarlyStop ==
    (api \in {"at", "flat", "seq"}) =>
        /\ UserCalls = Len(rets)
        /\ \A k \in 1..Len(rets) :
             rets[k] = FALSE => (k = Len(rets) /\ pc = "done" /\ err = "nil")

\* C1 witness: EachFlatMessage stopped at its second call, on a FlatMessage
\* that is not the last data field of its message.
C1_Witness ==
    /\ api = "flat" /\ pc = "done" /\ err = "nil"
    /\ rets = << TRUE, FALSE >> /\ Len(flatCalls) = 2
    /\ Len(pending) > 1

\* C2 (as stated): call i carries index i and Index i; message offsets start
\* at 0, increase strictly and each is the previous offset plus the previous
\* Length; section offsets of a message start at the message offset, increase
\* strictly and each is the previous offset plus the previous length.
C2_FileOrder ==
    \A i \in 1..Len(calls) :
        LET info == calls[i].info
        IN  /\ calls[i].index = i - 1
            /\ info.Index = i - 1
            /\ (i = 1 => info.Offset = 0)
            /\ (i > 1 => /\ info.Offset > calls[i - 1].info.Offset
                         /\ info.Offset = calls[i - 1].info.Offset + calls[i - 1].info.Length)
            /\ \A j \in 1..Len(info.Sections) :
                 /\ (j = 1 => info.Sections[j].Offset = info.Offset)
                 /\ (j > 1 => /\ info.Sections[j].Offset > info.Sections[j - 1].Offset
                              /\ info.Sections[j].Offset =
                                   info.Sections[j - 1].Offset + info.Sections[j - 1].Length)

\* C2 witness: the positioned scan called the callback twice for one offset.
C2_Witness ==
    /\ api = "at" /\ Len(calls) >= 2
    /\ calls[2].info.Offset = calls[1].info.Offset

RefSecOf(secs, n) ==
    IF \E j \in 1..Len(secs) : secs[j].Number = n
    THEN secs[CHOOSE j \in 1..Len(secs) : secs[j].Number = n /\ \A k \in j + 1..Len(secs) : secs[k].Number # n].Offset
    ELSE NoSec

RefNoField == [ProductDef |-> NoSec, DataRepSec |-> NoSec, Bitmap |-> NoSec]

RefStep(st, sec) ==
    IF sec.Number = 2 THEN [st EXCEPT !.LocalUse = sec.Offset, !.open = RefNoField]
    ELSE IF sec.Number = 3 THEN [st EXCEPT !.GridDef = sec.Offset, !.open = RefNoField]
    ELSE IF sec.Number = 4 THEN [st EXCEPT !.open = [RefNoField EXCEPT !.ProductDef = sec.Offset]]
    ELSE IF sec.Number = 5 /\ st.open.ProductDef # NoSec /\ st.open.DataRepSec = NoSec
                           /\ st.open.Bitmap = NoSec
         THEN [st EXCEPT !.open.DataRepSec = sec.Offset]
    ELSE IF sec.Number = 6 /\ st.open.DataRepSec # NoSec /\ st.open.Bitmap = NoSec
         THEN [st EXCEPT !.open.Bitmap = sec.Offset]
    ELSE IF sec.Number = 7 /\ st.open.DataRepSec # NoSec
         THEN [st EXCEPT !.open = RefNoField,
                         !.out = Append(@, [LocalUse |-> st.LocalUse, GridDef |-> st.GridDef,
                                            ProductDef |-> st.open.ProductDef,
                                            DataRepSec |-> st.open.DataRepSec,
                                            Bitmap |-> st.open.Bitmap, Data |-> sec.Offset])]
    ELSE [st EXCEPT !.open = RefNoField]

RECURSIVE RefFold(_, _)
RefFold(st, secs) == IF secs = << >> THEN st ELSE RefFold(RefStep(st, Head(secs)), Tail(secs))

RefFields(info) ==
    LET out == RefFold([LocalUse |-> NoSec, GridDef |-> NoSec, open |-> RefNoField, out |-> << >>],
                       info.Sections).out
    IN  [i \in 1..Len(out) |->
            [Offset |-> info.Offset, Indicator |-> RefSecOf(info.Sections, 0),
             Identification |-> RefSecOf(info.Sections, 1), LocalUse |-> out[i].LocalUse,
             GridDef |-> out[i].GridDef, ProductDef |-> out[i].ProductDef,
             DataRepSec |-> out[i].DataRepSec, Bitmap |-> out[i].Bitmap,
             Data |-> out[i].Data, End |-> RefSecOf(info.Sections, 8)]]

RECURSIVE RefFieldsOfCalls(_)
RefFieldsOfCalls(cs) ==
    IF cs = << >> THEN << >> ELSE RefFields(Head(cs).info) \o RefFieldsOfCalls(Tail(cs))

FlatSections(flat) ==
    [Offset |-> flat.Offset, Indicator |-> flat.Indicator, Identification |-> flat.Identification,
     LocalUse |-> flat.LocalUse, GridDef |-> flat.GridDef, ProductDef |-> flat.ProductDef,
     DataRepSec |-> flat.DataRepSec, Bitmap |-> flat.Bitmap, Data |-> flat.Data, End |-> flat.End]

\* C5 (as stated): when EachFlatMessage has ended, never told to stop and with
\* no error to report, the FlatMessages it delivered are, in order, the data fields
\* of the messages of the file, each with its message's S0, S1, S8 and the
\* nearest preceding S3 and S2, and as many as there are data fields.
C5_FlatteningExact ==
    (api = "flat" /\ (pc = "panic" \/ (pc = "done" /\ err = "nil")) /\ \A k \in 1..Len(rets) : rets[k]) =>
        /\ Len(flatCalls) = Len(RefFieldsOfCalls(calls))
        /\ \A i \in 1..Len(flatCalls) :
             /\ flatCalls[i].index = i - 1
             /\ i <= Len(RefFieldsOfCalls(calls))
             /\ FlatSections(flatCalls[i].flat) = RefFieldsOfCalls(calls)[i]

\* C5 witness: the whole file was flattened and more FlatMessages were
\* delivered than the file has data fields.
C5_Witness ==
    /\ api = "flat" /\ pc = "done" /\ err = "nil" /\ \A k \in 1..Len(rets) : rets[k]
    /\ Len(flatCalls) > Len(RefFieldsOfCalls(calls))

\* C6 (as stated): EachFlatMessage is never aborted by a data field that lacks
\* its Section 5 or Section 7, and every FlatMessage the callback received has
\* Indicator, Identification, GridDef, ProductDef, DataRepSec, Data and End.
C6_PartialFieldDiscarded ==
    (api = "flat") =>
        /\ pc # "panic"
        /\ \A i \in 1..Len(flatCalls) :
             LET flat == flatCalls[i].flat
             IN  /\ flat.Indicator # NoSec /\ flat.Identification # NoSec
                 /\ flat.GridDef # NoSec /\ flat.ProductDef # NoSec
                 /\ flat.DataRepSec # NoSec /\ flat.Data # NoSec /\ flat.End # NoSec

\* C6 witness: a FlatMessage without Data reached the callback.
C6_Witness ==
    /\ api = "flat" /\ Len(flatCalls) >= 1
    /\ flatCalls[1].flat.Data = NoSec
    /\ flatCalls[1].flat.DataRepSec # NoSec

\* C10 (as stated): a Reader.ReadSection that succeeded has consumed exactly
\* the bytes of the section it returned: 16 for Section 0, 4 for Section 8,
\* the declared length for Sections 1 to 7.
C10_ReadSectionConsumes ==
    (api = "seq" /\ lastRead.res = "ok") => pos = lastRead.start + lastRead.length

\* C10 witness: a Section 2 was returned and the stream is further on than
\* the end of that section.
C10_Witness ==
    /\ api = "seq" /\ lastRead.res = "ok" /\ lastRead.num = 2
    /\ pos > lastRead.start + lastRead.length

\* the stream behind the handle supplies the whole payload
WholeUpstream == up.failAt = NoSec /\ Len(up.data) >= h.dataSize

\* the DataSize() bytes that follow the section header
Payload == SubSeq(up.data, 1, h.dataSize)

\* C7 (as stated): on a handle whose stream supplies the whole payload every
\* Data() result is the payload, and a DataReader read until it reports
\* io.EOF has returned the payload, whatever buffer sizes were passed to Read.
C7_LazyEquivalence ==
    (api = "s7" /\ WholeUpstream) =>
        /\ \A i \in 1..Len(dataRets) : dataRets[i] = Payload
        /\ (rd.state = "eof" => rd.bytes = Payload)

\* C7 witness: a reader reported io.EOF before it had returned the payload.
C7_Witness ==
    /\ api = "s7" /\ WholeUpstream
    /\ rd.state = "eof" /\ rd.bytes # Payload

\* C7, non-empty buffers only: a reader that was never passed an empty buffer
\* has returned the payload when it reports io.EOF.
C7_NonEmptyBuffers ==
    (api = "s7" /\ WholeUpstream) =>
        /\ \A i \in 1..Len(dataRets) : dataRets[i] = Payload
        /\ ((rd.state = "eof" /\ ~rd.empty) => rd.bytes = Payload)
        /\ rd.state # "err"

\* C8 (as stated): with several threads on one handle whose stream supplies
\* the whole payload, under every interleaving the handle holds no error, the
\* shared buffer is a prefix of the payload, and every thread that is done,
\* by Data() or by reading a DataReader to io.EOF, has the payload.
C8_ConcurrentLazyRead ==
    (api = "conc" /\ WholeUpstream) =>
        /\ h.readErr = "nil"
        /\ Len(h.buffer) <= h.dataSize
        /\ h.buffer = SubSeq(up.data, 1, Len(h.buffer))
        /\ \A t \in Threads :
             thr[t].pc = "done" => (thr[t].bytes = Payload /\ thr[t].err = "nil")

\* C8 witness: next to a thread that got the payload from Data(), a reader
\* thread is done without the payload.
C8_Witness ==
    /\ api = "conc" /\ WholeUpstream
    /\ \E t, u \in Threads :
         /\ thr[t].kind = "data" /\ thr[t].pc = "done" /\ thr[t].bytes = Payload
         /\ thr[u].kind = "reader" /\ thr[u].pc = "done" /\ thr[u].bytes # Payload

\* C8, non-empty buffers only: every thread that is done and never passed an
\* empty buffer has the payload, under every interleaving.
C8_NonEmptyBuffers ==
    (api = "conc" /\ WholeUpstream) =>
        /\ h.readErr = "nil"
        /\ Len(h.buffer) <= h.dataSize
        /\ h.buffer = SubSeq(up.data, 1, Len(h.buffer))
        /\ \A t \in Threads :
             (thr[t].pc = "done" /\ ~thr[t].empty) => (thr[t].bytes = Payload /\ thr[t].err = "nil")

\* C9: all Data() calls on one handle have returned equal bytes, whatever the
\* caller wrote into a returned slice and whatever was read through a
\* DataReader in between.
C9_DataIdempotent ==
    (api = "s7") => \A i, j \in 1..Len(dataRets) : dataRets[i] = dataRets[j]

\* C9 witness: Data() was called again after a partial read through a
\* DataReader and after the caller overwrote a byte of the slice returned first.
C9_Witness ==
    /\ api = "s7" /\ Len(dataRets) = 2
    /\ Len(dataRets[1]) >= 2
    /\ slice.writes >= 1 /\ slice.b = dataRets[2]
    /\ rd.state = "open" /\ rd.offset > 0 /\ rd.offset < Len(dataRets[1])

\* the first message boundary of f, following the declared totalLengths from
\* offset 0, at which 4 bytes stand that are not "GRIB"; NoSec if there is none
RECURSIVE RefBadBoundary(_, _)
RefBadBoundary(f, off) ==
    IF off + 4 > Len(f) THEN NoSec
    ELSE IF SubSeq(f, off + 1, off + 4) # GRIB THEN off
    ELSE IF off + 16 > Len(f) THEN NoSec
    ELSE IF BE64(SubSeq(f, off + 9, off + 16)) = 0 THEN NoSec
    ELSE RefBadBoundary(f, off + BE64(SubSeq(f, off + 9, off + 16)))

\* C11 (as stated): when 4 bytes that are not "GRIB" stand at a message
\* boundary, the callback is never called for a message at or after that
\* offset, and a scan that was not told to stop ends with InvalidMagic.
C11_InvalidMagicFatal ==
    (api \in {"at", "flat", "seq"} /\ RefBadBoundary(File, 0) # NoSec) =>
        /\ \A i \in 1..Len(calls) : calls[i].info.Offset < RefBadBoundary(File, 0)
        /\ \A i \in 1..Len(flatCalls) : flatCalls[i].flat.Offset < RefBadBoundary(File, 0)
        /\ ((pc = "done" /\ \A k \in 1..Len(rets) : rets[k]) => err = "InvalidMagic")

\* C11 witness: the sequential reader went through a file that has a section
\* header where its second message should start, and ended without an error.
C11_Witness ==
    /\ api = "seq" /\ pc = "done" /\ err = "nil"
    /\ RefBadBoundary(File, 0) > 0
    /\ Len(calls) >= 1 /\ \A k \in 1..Len(rets) : rets[k]

\* a section header at off that is no magic and declares a length below 5
ShortHeaderAt(f, off) ==
    /\ off + 4 <= Len(f)
    /\ SubSeq(f, off + 1, off + 4) # GRIB
    /\ SubSeq(f, off + 1, off + 4) # End7777
    /\ BE32(SubSeq(f, off + 1, off + 4)) < 5

\* the first such header met when the sections of f are followed from p, with
\* the offset m of the message it is in; msg is NoSec if there is none
RECURSIVE RefShort(_, _, _)
RefShort(f, p, m) ==
    IF p + 4 > Len(f) THEN [msg |-> NoSec, off |-> NoSec]
    ELSE IF SubSeq(f, p + 1, p + 4) = GRIB THEN RefShort(f, p + 16, p)
    ELSE IF SubSeq(f, p + 1, p + 4) = End7777 THEN RefShort(f, p + 4, m)
    ELSE IF ShortHeaderAt(f, p) THEN [msg |-> m, off |-> p]
    ELSE RefShort(f, p + BE32(SubSeq(f, p + 1, p + 4)), m)

\* C12 (as stated): a header that declares a length below 5 makes framing fail
\* and yields no section: the positioned scan ends with InvalidLength and
\* without a callback for that message, ReadSectionAt at that offset returns
\* an error, and so does the sequential ReadSection (NewSection7FromReader
\* included), which caches nothing for it.
C12_InvalidLength ==
    /\ (api \in {"at", "flat"} /\ RefShort(File, 0, 0).msg # NoSec) =>
          /\ \A i \in 1..Len(calls) : calls[i].info.Offset # RefShort(File, 0, 0).msg
          /\ ((pc = "done" /\ \A k \in 1..Len(rets) : rets[k]) => err = "InvalidLength")
    /\ (api = "rsat" /\ lastAt.res # "none" /\ ShortHeaderAt(File, lastAt.start)) =>
          lastAt.res = "err"
    /\ (api = "seq" /\ lastRead.res # "none" /\ ShortHeaderAt(File, lastRead.start)) =>
          /\ lastRead.res = "err"
          /\ \A i \in 1..Len(sections) : sections[i].id # lastRead.start

\* C12 witness: the sequential ReadSection returned a Section 7 whose header
\* declares a length below 5.
C12_Witness ==
    /\ api = "seq" /\ lastRead.res = "ok" /\ lastRead.num = 7
    /\ ShortHeaderAt(File, lastRead.start)
    /\ \E i \in 1..Len(sections) : sections[i].id = lastRead.start

\* C13 (as stated): every SectionInfo the callback received has a Number in
\* 0..8, and Number 0 or 8 only where the file holds "GRIB" or "7777".
C13_SectionNumbers ==
    (api \in {"at", "flat"}) =>
        \A i \in 1..Len(calls) : \A j \in 1..Len(calls[i].info.Sections) :
            LET si == calls[i].info.Sections[j]
            IN  /\ si.Number \in 0..8
                /\ (si.Number = 0 => ReadAt(File, si.Offset, 4).b = GRIB)
                /\ (si.Number = 8 => ReadAt(File, si.Offset, 4).b = End7777)

\* C13 witness: the positioned scan delivered a SectionInfo with Number 9.
C13_Witness ==
    /\ api = "at" /\ Len(calls) >= 1
    /\ \E j \in 1..Len(calls[1].info.Sections) : calls[1].info.Sections[j].Number = 9

\* following the sections of f from p, one of them starts before end and
\* ends after it
RECURSIVE RefOverlongFrom(_, _, _)
RefOverlongFrom(f, p, end) ==
    IF p >= end \/ p + 4 > Len(f) THEN FALSE
    ELSE IF SubSeq(f, p + 1, p + 4) = GRIB
         THEN p + 16 > end \/ RefOverlongFrom(f, p + 16, end)
    ELSE IF SubSeq(f, p + 1, p + 4) = End7777 THEN p + 4 > end
    ELSE IF BE32(SubSeq(f, p + 1, p + 4)) < 5 THEN FALSE
    ELSE \/ p + BE32(SubSeq(f, p + 1, p + 4)) > end
         \/ RefOverlongFrom(f, p + BE32(SubSeq(f, p + 1, p + 4)), end)

\* C14 (as stated): the callback is never called for a message one of whose
\* sections runs past the totalLength its Section 0 declares.
C14_OverlongFatal ==
    (api \in {"at", "flat", "seq"}) =>
        \A i \in 1..Len(calls) :
            ~RefOverlongFrom(File, calls[i].info.Offset,
                             calls[i].info.Offset + calls[i].info.Length)

\* C14 witness: the positioned scan called the callback for a message whose
\* Section 3 ends after the declared totalLength.
C14_Witness ==
    /\ api = "at" /\ Len(calls) >= 1
    /\ RefOverlongFrom(File, calls[1].info.Offset, calls[1].info.Offset + calls[1].info.Length)
    /\ calls[1].info.Sections[Len(calls[1].info.Sections)].Number = 3

\* the offsets at which the messages of f start, following the declared
\* totalLengths from off
RECURSIVE RefStarts(_, _)
RefStarts(f, off) ==
    IF off + 16 > Len(f) \/ SubSeq(f, off + 1, off + 4) # GRIB THEN {}
    ELSE IF BE64(SubSeq(f, off + 9, off + 16)) = 0 THEN {off}
    ELSE {off} \cup RefStarts(f, off + BE64(SubSeq(f, off + 9, off + 16)))

\* following whole sections of f from p, the declared end of the message or
\* the end of f is reached at a section boundary before any Section 8
RECURSIVE RefUntermFrom(_, _, _)
RefUntermFrom(f, p, end) ==
    IF p = end \/ p = Len(f) THEN TRUE
    ELSE IF p > end \/ p + 4 > Len(f) THEN FALSE
    ELSE IF SubSeq(f, p + 1, p + 4) = End7777 THEN FALSE
    ELSE IF SubSeq(f, p + 1, p + 4) = GRIB THEN FALSE
    ELSE IF BE32(SubSeq(f, p + 1, p + 4)) < 5 THEN FALSE
    ELSE IF p + BE32(SubSeq(f, p + 1, p + 4)) > Len(f) THEN FALSE
    ELSE RefUntermFrom(f, p + BE32(SubSeq(f, p + 1, p + 4)), end)

RefUnterminated(f) ==
    { m \in RefStarts(f, 0) :
        RefUntermFrom(f, m + 16, m + BE64(SubSeq(f, m + 9, m + 16))) }

\* C15 (as stated): when a scan that was not told to stop has ended, every
\* message of the file that reaches its declared end, or the end of the
\* source, without a Section 8 has been delivered with the sections found,
\* Section 0 first; positioned and sequential variant.
C15_UnterminatedDelivered ==
    (api \in {"at", "seq"} /\ pc = "done" /\ \A k \in 1..Len(rets) : rets[k]) =>
        \A m \in RefUnterminated(File) :
            \E i \in 1..Len(calls) :
                /\ calls[i].info.Offset = m
                /\ calls[i].info.Sections # << >>
                /\ calls[i].info.Sections[1].Number = 0

\* C15 witness: the sequential reader has ended without an error and without
\* a call for the last message of the stream, which has no Section 8.
C15_Witness ==
    /\ api = "seq" /\ pc = "done" /\ err = "nil" /\ \A k \in 1..Len(rets) : rets[k]
    /\ \E m \in RefUnterminated(File) :
         /\ m > 0
         /\ \A i \in 1..Len(calls) : calls[i].info.Offset # m

\* C16 (as stated): in the sequential variant a ReadSection whose Section 7
\* payload is not wholly in the stream does not succeed, and EachMessage over
\* such a stream ends with an error.
C16_DrainErrorFatal ==
    (api = "seq") =>
        /\ ~(lastRead.res = "ok" /\ lastRead.num = 7
               /\ lastRead.start + lastRead.length > Len(File))
        /\ ((pc = "done" /\ \E i \in 1..Len(sections) :
                               sections[i].num = 7 /\ sections[i].id + sections[i].length > Len(File))
              => err # "nil")

\* C16 witness: Reader.EachMessage has ended with a nil error over a stream
\* that ends inside the payload of a Section 7 it has cached.
C16_Witness ==
    /\ api = "seq" /\ pc = "done" /\ err = "nil"
    /\ Len(calls) >= 1
    /\ \E i \in 1..Len(sections) :
         sections[i].num = 7 /\ sections[i].id + sections[i].length = Len(File) + 1

\* C17 (as stated): a message whose sections cannot all be read and decoded
\* is the last one EachFlatMessage scans: the call has ended there with an
\* error.
C17_BuildErrorReturned ==
    (api = "flat") =>
        \A i \in 1..Len(calls) :
            buildMessageFromInfo(File, calls[i].info).err # "nil" =>
                (i = Len(calls) /\ pc = "done" /\ err # "nil")

\* C17 witness: EachFlatMessage has ended with a nil error after delivering a
\* FlatMessage of a message that follows one it could not build.
C17_Witness ==
    /\ api = "flat" /\ pc = "done" /\ err = "nil"
    /\ Len(calls) = 2 /\ Len(flatCalls) = 1
    /\ buildMessageFromInfo(File, calls[1].info).err # "nil"
    /\ flatCalls[1].flat.Offset = calls[2].info.Offset

\* a Section 5, 6 or 7 of secs comes while no data field is open: no Section 4
\* since the last Section 2 or 3 (or since the start of the message)
RECURSIVE RefOrphan(_, _)
RefOrphan(secs, open) ==
    IF secs = << >> THEN FALSE
    ELSE IF Head(secs).Number \in {5, 6, 7} /\ ~open THEN TRUE
    ELSE RefOrphan(Tail(secs), IF Head(secs).Number = 4 THEN TRUE
                               ELSE IF Head(secs).Number \in {0, 2, 3} THEN FALSE
                               ELSE open)

\* the data fields of an assembled message
BuiltFields(msg) == FieldsOfBlocks(msg.Blocks)

\* C18 (as stated): for a scanned message in which a Section 5, 6 or 7 comes
\* while no data field is open, the assembler reports an OutOfOrder error,
\* the section is attached to no data field, and EachFlatMessage goes on to
\* the next message: unless told to stop, it ends with a nil error only where
\* no further message can start.
C18_OutOfOrderReported ==
    (api = "flat") =>
        \A i \in 1..Len(calls) :
            RefOrphan(calls[i].info.Sections, FALSE) =>
                /\ buildMessageFromInfo(File, calls[i].info).err = "OutOfOrder"
                /\ \A k \in 1..Len(BuiltFields(buildMessageFromInfo(File, calls[i].info).msg)) :
                     LET df == BuiltFields(buildMessageFromInfo(File, calls[i].info).msg)[k].df
                     IN  \A j \in 1..Len(calls[i].info.Sections) :
                            LET s == calls[i].info.Sections[j]
                            IN  (s.Number \in {5, 6, 7}
                                 /\ ~RefOrphan(SubSeq(calls[i].info.Sections, 1, j - 1), FALSE)
                                 /\ RefOrphan(SubSeq(calls[i].info.Sections, 1, j), FALSE)) =>
                                    s.Offset \notin {df.DataRep, df.Bitmap, df.Data}
                /\ (pc = "done" /\ err = "nil" /\ i = Len(calls) /\ \A k \in 1..Len(rets) : rets[k]) =>
                       calls[i].info.Offset + calls[i].info.Length + 4 > Len(File)

\* C18 witness: EachFlatMessage has ended over a file whose first message has
\* a Section 5 and a Section 7 without a Section 4; the message was assembled
\* with no error and no data field, and the next message was delivered.
C18_Witness ==
    /\ api = "flat" /\ pc = "done" /\ err = "nil"
    /\ Len(calls) = 2 /\ Len(flatCalls) = 1
    /\ RefOrphan(calls[1].info.Sections, FALSE)
    /\ buildMessageFromInfo(File, calls[1].info).err = "nil"
    /\ BuiltFields(buildMessageFromInfo(File, calls[1].info).msg) = << >>
    /\ flatCalls[1].flat.Offset = calls[2].info.Offset

\* the length the slice declares, where it is long enough to declare one
DeclaredLength(data) == IF Len(data) >= 4 THEN BE32(SubSeq(data, 1, 4)) ELSE 0

\* C19 (as stated): a decoder handed a slice shorter than the length the
\* section declares, or shorter than the section's minimum size, returns an
\* error; every section value returned holds template or bit-map bytes that
\* are all bytes of the slice, and as many list values as the slice has.
C19_TruncatedRejected ==
    (api = "bytes" /\ decOut # DecNone) =>
        /\ (Len(decData) < MinLen(decNum) \/ Len(decData) < DeclaredLength(decData)) =>
              decOut.err # "nil"
        /\ decOut.err = "nil" =>
              /\ Len(decOut.body) + 4 * decOut.entries <= Len(decData) - MinLen(decNum)
              /\ decOut.body = SubSeq(decData, MinLen(decNum) + 1, MinLen(decNum) + Len(decOut.body))

\* C19 witness: NewSection5FromBytes was handed 12 bytes of a Section 5 that
\* declares 14 bytes, and returned a section whose 3-byte template is the one
\* byte of the slice followed by two zero bytes.
C19_Witness ==
    /\ api = "bytes" /\ decNum = 5
    /\ Len(decData) = 12 /\ DeclaredLength(decData) = 14
    /\ decOut.err = "nil" /\ decOut.length = 14
    /\ decOut.body = << 1, 0, 0 >>

\* C20: for every SectionInfo that ReaderAt.EachMessage delivered,
\* ReadSectionAt(Offset) returns either an error or a section whose number
\* and length are the SectionInfo's Number and Length.
C20_ReadSectionAtAgrees ==
    (api \in {"at", "flat"}) =>
        \A i \in 1..Len(calls) :
            \A j \in 1..Len(calls[i].info.Sections) :
                LET s == calls[i].info.Sections[j]
                    r == ReadSectionAt(File, s.Offset)
                IN  /\ r.res \in {"ok", "err"}
                    /\ r.res = "ok" => (r.num = s.Number /\ r.length = s.Length)

\* C20 witness: EachMessage delivered a message that holds a section numbered
\* 9 and a Section 1; ReadSectionAt returns an error at the first and the
\* Section 1, with its length, at the second.
C20_Witness ==
    /\ api = "at" /\ Len(calls) >= 1
    /\ \E j, k \in 1..Len(calls[1].info.Sections) :
         /\ calls[1].info.Sections[j].Number = 9
         /\ ReadSectionAt(File, calls[1].info.Sections[j].Offset).res = "err"
         /\ calls[1].info.Sections[k].Number = 1
         /\ ReadSectionAt(File, calls[1].info.Sections[k].Offset).res = "ok"
         /\ ReadSectionAt(File, calls[1].info.Sections[k].Offset).num = 1
         /\ ReadSectionAt(File, calls[1].info.Sections[k].Offset).length = 21

\* every answer the callback gave was true
AllTrue(answers) == \A k \in 1..Len(answers) : answers[k]

\* C21 (as stated): the second EachMessage on a ReaderAt or on a sequential
\* Reader delivers what the first delivered, call by call, and when the
\* callback stopped neither of them the two end with as many calls and the
\* same error; a second ReadSectionAt at one offset returns what the first did.
C21_IdempotentScan ==
    (round = 2) =>
        /\ (api \in {"at", "seq"}) =>
              /\ \A i \in 1..Min(Len(calls), Len(first.calls)) : calls[i] = first.calls[i]
              /\ (pc = "done" /\ AllTrue(rets) /\ AllTrue(first.rets)) =>
                    (Len(calls) = Len(first.calls) /\ err = first.err)
        /\ (api = "rsat" /\ pc = "done") => lastAt = first.at

\* C21 witness: the first EachMessage on a sequential Reader returned an
\* error, the second one on the same Reader has ended with a nil error.
C21_Witness ==
    /\ api = "seq" /\ round = 2 /\ pc = "done"
    /\ first.err # "nil" /\ err = "nil"

\* C22: the index handed to the EachFlatMessage callback and the Index of the
\* FlatMessage handed with it are both the number of calls made before, so
\* they run 0, 1, 2, ... over all messages of the file.
C22_RunningIndex ==
    (api = "flat") =>
        \A i \in 1..Len(flatCalls) :
            /\ flatCalls[i].index = i - 1
            /\ flatCalls[i].flat.Index = i - 1

\* C22 witness: three FlatMessages were delivered from a file whose first
\* message has two data fields, whose second has none and whose third has one.
C22_Witness ==
    /\ api = "flat" /\ pc = "done" /\ Len(calls) = 3 /\ Len(flatCalls) = 3
    /\ flatCalls[1].flat.Offset = calls[1].info.Offset
    /\ flatCalls[2].flat.Offset = calls[1].info.Offset
    /\ flatCalls[3].flat.Offset = calls[3].info.Offset
    /\ flatCalls[3].index = 2 /\ flatCalls[3].flat.Index = 2

\* the template a section of a data field carries, read off its bytes
TemplateOf(data, fixed) == SubSeq(data, fixed + 1, Len(data))

\* C23 (as stated): for a data field whose Section 4 carries a product
\* template of at least 25 bytes and whose Section 3 carries grid template 3.0
\* (number 0, all 72 bytes), Product.Category, Product.Parameter and Product.ForecastTime are bytes 0, 1
\* and 9..12 of the product template, and Grid.LatLon is there with
\* NumberOfGridPointsAlongX from bytes 16..19 of the grid template.
C23_CommonFields ==
    (api = "extract" /\ exOut.done
     /\ Len(TemplateOf(exIn.productDef, 9)) >= 25
     /\ gridDefinitionTemplateNumber(exIn.gridDef) = 0
     /\ Len(TemplateOf(exIn.gridDef, 14)) >= 72) =>
        /\ exOut.Product.fields.Category = TemplateOf(exIn.productDef, 9)[1]
        /\ exOut.Product.fields.Parameter = TemplateOf(exIn.productDef, 9)[2]
        /\ exOut.Product.fields.ForecastTime = BE32(SubSeq(TemplateOf(exIn.productDef, 9), 10, 13))
        /\ ~exOut.Grid.LatLon.nil
        /\ exOut.Grid.LatLon.NumberOfGridPointsAlongX
              = BE32(SubSeq(TemplateOf(exIn.gridDef, 14), 17, 20))

\* C23 witness: the fields were extracted for a product template of 34 bytes
\* that starts with a non-zero byte and a grid template 3.0 of 72 bytes;
\* Category is 0 and LatLon is nil.
C23_Witness ==
    /\ api = "extract" /\ exOut.done
    /\ Len(TemplateOf(exIn.productDef, 9)) = 34
    /\ TemplateOf(exIn.productDef, 9)[1] # 0
    /\ gridDefinitionTemplateNumber(exIn.gridDef) = 0
    /\ Len(TemplateOf(exIn.gridDef, 14)) = 72
    /\ exOut.Product.fields.Category = 0
    /\ exOut.Grid.LatLon.nil

\* C30 (as stated): the template numbers surfaced in Grid, Product and DataRep
\* of the FlatMessage are the 16-bit numbers stored in Section 3, 4 and 5, and
\* Grid.LatLon is extracted only when the stored grid template number is 0.
C30_FullTemplateNumbers ==
    (api = "extract" /\ exOut.done) =>
        /\ exOut.Grid.TemplateNumber = gridDefinitionTemplateNumber(exIn.gridDef)
        /\ exOut.Product.TemplateNumber = productDefinitionTemplateNumber(exIn.productDef)
        /\ exOut.DataRep.TemplateNumber = dataRepresentationTemplateNumber(exIn.dataRep)
        /\ (~exOut.Grid.LatLon.nil) => gridDefinitionTemplateNumber(exIn.gridDef) = 0

\* C30 witness: a Section 3 that stores grid template number 256 was flattened
\* and surfaces grid template number 0, as a Section 3 that stores 0 does.
C30_Witness ==
    /\ api = "extract" /\ exOut.done
    /\ gridDefinitionTemplateNumber(exIn.gridDef) = 256
    /\ exOut.Grid.TemplateNumber = 0

\* where the reads of ReaderAt.EachMessage for one delivered MessageInfo end:
\* the 16-byte header, then first4 of every section and, unless first4 is a
\* marker, the one byte after it
ReadEnds(f, info) ==
    {info.Offset + 16} \cup
    { info.Sections[i].Offset
        + (IF ReadAt(f, info.Sections[i].Offset, 4).b \in {GRIB, End7777} THEN 4 ELSE 5) :
      i \in 1..Len(info.Sections) }

\* bytes of a section that tell its number and length
PrefixLen(num) == IF num = 0 THEN 16 ELSE IF num = 8 THEN 4 ELSE 5

\* C24 (as stated): when the callback has returned false for message k, nothing
\* at or beyond Offset_k + Length_k has been read; and what is read to produce
\* the MessageInfo is the Section 0 header and the prefix of each section,
\* never a section body.
C24_CancellationBounded ==
    /\ (api \in {"at", "seq"} /\ round = 1 /\ rets # << >> /\ ~rets[Len(rets)]) =>
          LET k == calls[Len(calls)].info
          IN  /\ (api = "at") =>
                    \A i \in 1..Len(calls) : \A e \in ReadEnds(File, calls[i].info) :
                        e <= k.Offset + k.Length
              /\ (api = "seq") => pos <= k.Offset + k.Length
    /\ (api = "seq" /\ lastRead.res = "ok") =>
          pos - lastRead.start <= PrefixLen(lastRead.num)

\* C24 witness: over two well-formed messages the sequential Reader was stopped
\* by the callback at message 0, having consumed the whole stream.
C24_Witness ==
    /\ api = "seq" /\ fileNo = 2 /\ round = 1 /\ pc = "done"
    /\ rets = << FALSE >> /\ Len(calls) = 1
    /\ calls[1].info.Offset = 0
    /\ pos = Len(File)
    /\ pos > calls[1].info.Length

\* the section numbers that may follow a section in a message
RefFollow(num) ==
    CASE num = 0 -> {1}
      [] num = 1 -> {2, 3}
      [] num = 2 -> {3}
      [] num = 3 -> {4}
      [] num = 4 -> {5}
      [] num = 5 -> {6, 7}
      [] num = 6 -> {7}
      [] num = 7 -> {2, 3, 4, 8}
      [] OTHER -> {}

\* the section list of a message in the order GRIB2 prescribes
RefOrdered(secs) ==
    /\ secs # << >>
    /\ secs[1].Number = 0
    /\ secs[Len(secs)].Number = 8
    /\ \A i \in 1..(Len(secs) - 1) : secs[i + 1].Number \in RefFollow(secs[i].Number)

\* the last section numbered num before index j (0 for none)
RefLastBefore(secs, num, j) ==
    IF \E i \in 1..(j - 1) : secs[i].Number = num
    THEN CHOOSE i \in 1..(j - 1) :
            secs[i].Number = num /\ \A m \in (i + 1)..(j - 1) : secs[m].Number # num
    ELSE 0

\* the first Section 7 after index j
RefNextData(secs, j) ==
    CHOOSE i \in (j + 1)..Len(secs) :
        secs[i].Number = 7 /\ \A m \in (j + 1)..(i - 1) : secs[m].Number # 7

\* the data field that starts at the Section 4 at index j of an ordered list
RefField(secs, j) ==
    LET g == RefLastBefore(secs, 3, j)
        l == RefLastBefore(secs, 2, g)
    IN  [LocalUse |-> IF l = 0 THEN NoSec ELSE secs[l].Offset,
         GridDef |-> secs[g].Offset,
         ProductDef |-> secs[j].Offset,
         Data |-> secs[RefNextData(secs, j)].Offset]

RefIsSection4(sec) == sec.Number = 4

\* the data fields of an ordered section list, in file order
RefTreeFields(secs) ==
    LET at == [i \in 1..Len(secs) |-> [Number |-> secs[i].Number, j |-> i]]
        s4 == SelectSeq(at, RefIsSection4)
    IN  [k \in 1..Len(s4) |-> RefField(secs, s4[k].j)]

\* the data fields of an assembled tree, each with its blocks
TreeFields(msg) ==
    [k \in 1..Len(BuiltFields(msg)) |->
        [LocalUse |-> BuiltFields(msg)[k].lb.LocalUse,
         GridDef |-> BuiltFields(msg)[k].gb.GridDef,
         ProductDef |-> BuiltFields(msg)[k].df.ProductDef,
         Data |-> BuiltFields(msg)[k].df.Data]]

\* C25 (as stated): in the tree of a message whose sections come in the
\* prescribed order, every Section 4 to Section 7 group is there exactly once
\* and in file order, in the GridBlock of the nearest Section 3 before it and
\* in the LocalBlock that was open when that Section 3 came; nothing is lost
\* when a Section 3, 2 or 8 follows a Section 7.
C25_NestedTree ==
    /\ (api = "seq" /\ round = 1) =>
          \A i \in 1..Len(messages) :
              RefOrdered(messages[i].Info.Sections) =>
                  TreeFields(messages[i]) = RefTreeFields(messages[i].Info.Sections)
    /\ (api = "flat") =>
          \A i \in 1..Len(calls) :
              (RefOrdered(calls[i].info.Sections)
               /\ buildMessageFromInfo(File, calls[i].info).err = "nil") =>
                  TreeFields(buildMessageFromInfo(File, calls[i].info).msg)
                      = RefTreeFields(calls[i].info.Sections)

\* C25 witness: the sequential Reader has built the message of input 30, whose
\* ordered sections hold two data fields, each in a grid block of its own; the
\* tree holds the second data field only.
C25_Witness ==
    /\ api = "seq" /\ fileNo = 30 /\ round = 1 /\ Len(messages) = 1
    /\ RefOrdered(messages[1].Info.Sections)
    /\ Len(RefTreeFields(messages[1].Info.Sections)) = 2
    /\ TreeFields(messages[1]) = << RefTreeFields(messages[1].Info.Sections)[2] >>

\* ReaderAt.EachMessage run to its end over f with a callback that returns
\* true: the MessageInfo delivered and the error returned ("loop" where the
\* offset would not advance any more)
RECURSIVE AtRun(_, _, _)
AtRun(f, off, index) ==
    IF index >= MaxMsgs THEN [infos |-> << >>, err |-> "loop"]
    ELSE LET m == AtScanMessage(f, off, index)
         IN  IF m.kind # "msg" THEN [infos |-> << >>, err |-> m.err]
             ELSE LET rest == AtRun(f, off + m.info.Length, index + 1)
                  IN  [infos |-> << m.info >> \o rest.infos, err |-> rest.err]

\* the MessageInfo a run has delivered
InfosOf(cs) == [i \in 1..Len(cs) |-> cs[i].info]

\* C26 (as stated): over the same file Reader.EachMessage, run to its end,
\* delivers the MessageInfo sequence ReaderAt.EachMessage delivers, fails
\* exactly when ReaderAt.EachMessage fails, and builds for each message the
\* blocks ReaderAt.buildMessageFromInfo builds.
C26_SameStateMachine ==
    (api = "seq" /\ round = 1 /\ pc = "done" /\ AllTrue(rets)) =>
        /\ InfosOf(calls) = AtRun(File, 0, 0).infos
        /\ (err = "nil") <=> (AtRun(File, 0, 0).err = "nil")
        /\ \A i \in 1..Min(Len(messages), Len(AtRun(File, 0, 0).infos)) :
              buildMessageFromInfo(File, AtRun(File, 0, 0).infos[i]).err = "nil" =>
                 messages[i].Blocks = buildMessageFromInfo(File, AtRun(File, 0, 0).infos[i]).msg.Blocks

\* C26 witness: over a message followed by one the end of the file cuts,
\* Reader.EachMessage has returned an error without a call of the callback,
\* where ReaderAt.EachMessage delivers the first message.
C26_Witness ==
    /\ api = "seq" /\ fileNo = 9 /\ round = 1 /\ pc = "done"
    /\ calls = << >> /\ err # "nil"
    /\ Len(AtRun(File, 0, 0).infos) >= 1
    /\ AtRun(File, 0, 0).infos[1].Offset = 0

\* C27 (as stated): ReaderAt.EachMessage returns after finitely many calls of
\* the callback, whatever totalLength a Section 0 declares.  A turn of its loop
\* depends on the offset alone, so the loop ends exactly if it never stands
\* again at an offset it has delivered a message for: every turn starts
\* beyond the offsets of the messages delivered.
C27_Terminates ==
    (api = "at" /\ round = 1 /\ pc = "scan") =>
        \A i \in 1..Len(calls) : calls[i].info.Offset < offset

\* C27 witness: over the file whose Section 0 declares totalLength 0 the
\* callback has returned true MaxMsgs times, each time for the message at
\* offset 0, and the loop stands at offset 0 again with that message to scan.
C27_Witness ==
    /\ api = "at" /\ fileNo = 7 /\ round = 1 /\ pc = "scan"
    /\ Len(calls) = MaxMsgs /\ AllTrue(rets)
    /\ \A i \in 1..Len(calls) : calls[i].info.Offset = 0 /\ calls[i].info.Length = 0
    /\ offset = 0
    /\ AtScanMessage(File, offset, 0) = [kind |-> "msg", err |-> "nil", info |-> calls[1].info]

\* C28: once isFullyRead is true or readErr is set, no step changes the
\* handle (buffer, isFullyRead, readErr) or makes a Read on the upstream
\* reader; and after every step the buffer is a prefix of the payload, not
\* longer than DataSize().
C28_TerminalState ==
    [][ /\ (h.isFullyRead \/ h.readErr # "nil") => (h' = h /\ up' = up)
        /\ Len(h'.buffer) <= h'.dataSize
        /\ h'.buffer = SubSeq(up'.data, 1, Len(h'.buffer)) ]_vars

\* C28 witness: Data() was called twice on a handle of 3 payload bytes whose
\* upstream gave one byte and then failed; the handle holds that byte and the
\* error, and two Read calls were made in all.
C28_Witness ==
    /\ api = "s7" /\ h.dataSize = 3
    /\ h.readErr = "Io" /\ h.buffer = << 11 >>
    /\ Len(dataRets) = 2 /\ ops = 2
    /\ up.reads = 2

\* the most bytes one Read of a splitting reader returns
Bursts == {1, 2, 3}

\* what section.Reader.ReadSection decodes from when r.Read(first4Bytes) has
\* returned got bytes: first4Bytes keeps zeros behind them, and the
\* io.MultiReader puts all 4 bytes in front of the rest of the stream
SplitStream(f, start, got) ==
    SubSeq(f, 1, start + got) \o Zeros(4 - got) \o SubSeq(f, start + got + 1, Len(f))

\* section.Reader.ReadSection on a reader that returns at most burst bytes per
\* Read; io.ReadFull and io.Copy in the section readers loop until they have
\* all they asked for
SectionReadSectionSplit(f, start, limit, burst) ==
    LET got == Min(Min(4, burst), limit - start)
    IN  IF got <= 0 THEN SecErr("EOF", 0)
        ELSE [SectionReadSection(SplitStream(f, start, got), start, limit + (4 - got))
                EXCEPT !.consumed = @ - (4 - got)]

\* C29 (as stated): what the sequential ReadSection returns, and where it
\* leaves the stream, is the same when the underlying reader returns fewer
\* bytes per Read than asked for.
C29_SplitIndependent ==
    (api = "seq" /\ round = 1 /\ lastRead.res # "none") =>
        \A burst \in Bursts :
            SectionReadSectionSplit(File, lastRead.start, Len(File), burst)
                = SectionReadSection(File, lastRead.start, Len(File))

\* C29 witness: ReadSection has returned the Section 0 at the start of input 1;
\* on a reader that returns one byte per Read it fails with an invalid section
\* number, having taken 2 bytes from the stream.
C29_Witness ==
    /\ api = "seq" /\ fileNo = 1 /\ round = 1
    /\ lastRead.start = 0 /\ lastRead.res = "ok" /\ lastRead.num = 0
    /\ SectionReadSectionSplit(File, 0, Len(File), 1) = SecErr("InvalidSectionNumber", 2)

====
